---- MODULE Spec2Model ----
(***************************************************************************)
(* Ledger engine of my007_currency_bot: the SQLite-backed Database class,  *)
(* the in-memory operation queue with its periodic flush task, the text    *)
(* handler paths that enqueue operations, and the administrative commands  *)
(* (delete, recalculate, clear, audit).                                    *)
(*                                                                         *)
(* The repository holds two generations of the program:                    *)
(*   "legacy" : src/bot.py + src/database.py                               *)
(*   "app"    : src/app/** (Database in src/app/db/database.py)            *)
(* The variable impl records which one is running.  delete_operation,      *)
(* recalculate_balances, clear_all, register_chat, get_balance(s) and      *)
(* get_operations are textually the same in both; add_operation and        *)
(* handle_text differ and are modelled per generation.                     *)
(*                                                                         *)
(* Amounts are integers in units of 0.001 currency unit (floats in the     *)
(* source), so 0.009 is 9 and 0.01 is 10.                                  *)
(* Operation types are written in ASCII:                                   *)
(*   Income = "Postuplenie", CashDeposit = "Vznos nalichnymi",             *)
(*   CashWithdrawal = "Vydacha nalichnyh", PPPayment = "Oplata PP",        *)
(*   PPRefund = "Vozvrat po PP", Commission = "Komissiya",                 *)
(*   Commission1 = "Komissiya 1%", BankRequest = "Zapros banku",           *)
(*   Conversion = "Konvertaciya", InternalExchange = "Internal Exchange".  *)
(***************************************************************************)
EXTENDS Integers, Sequences, FiniteSets, TLC

VARIABLES impl, db, operation_queue, pc, queue_snapshot, op_idx,
          balance_cache, now, issues, hist, update, reply, call,
          queue_lock, maintenance_mode, clock, balance_cache_time

vars == <<impl, db, operation_queue, pc, queue_snapshot, op_idx,
          balance_cache, now, issues, hist, update, reply, call,
          queue_lock, maintenance_mode, clock, balance_cache_time>>

(* ------------------------------ bounds --------------------------------- *)
MaxOps == 3
MaxNow == 1
MaxFails == 1
MaxMsgs == 1
MaxTokenLen == 9
MaxReads == 2
MaxClock == 5

(* --------------------------- program constants ------------------------- *)
CURRENCIES == {"USD", "EUR", "RUB", "CNY", "AED", "KGS", "USDT", "KZT"}

weak == {"RUB", "KGS", "KZT", "CNY"}

strong == {"USD", "USDT", "EUR", "AED"}

DRIFT_THRESHOLD == 9

TIME_WINDOW == 1

(* seconds *)
CACHE_TTL == 5

expense_types == {"CashWithdrawal", "PPPayment", "Commission", "Commission1"}

income_types == {"Income", "CashDeposit"}

(* ------------------------------ input sets ----------------------------- *)
Chats == {1, 2}

AllCurrencies == CURRENCIES \cup {"GBP"}

Impls == {"legacy", "app"}

(* Operations offered to queue_operation by callers other than the text   *)
(* handler paths modelled below.                                           *)
OpInputs ==
  { [type |-> "Income",         currency |-> "USD", amount |-> 10,  description |-> "d"],
    [type |-> "Income",         currency |-> "GBP", amount |-> 10,  description |-> "d"],
    [type |-> "CashWithdrawal", currency |-> "USD", amount |-> -20, description |-> "d"],
    [type |-> "PPPayment",      currency |-> "RUB", amount |-> 5,   description |-> "d"],
    [type |-> "BankRequest",    currency |-> "USD", amount |-> 10,  description |-> "d"],
    [type |-> "PPRefund",       currency |-> "RUB", amount |-> -10, description |-> "d"],
    [type |-> "CashDeposit",    currency |-> "RUB", amount |-> -5,  description |-> "d"] }

WriterInputs ==
  { [type |-> "Income",         currency |-> "USD", amount |-> 10,  description |-> "bank"],
    [type |-> "CashWithdrawal", currency |-> "USD", amount |-> -20, description |-> "d"],
    [type |-> "Income",         currency |-> "GBP", amount |-> 10,  description |-> "d"] }

StoreInputs ==
  { [type |-> "Income",         currency |-> "USD", amount |-> 10,  description |-> "d"],
    [type |-> "Income",         currency |-> "GBP", amount |-> 10,  description |-> "d"],
    [type |-> "PPPayment",      currency |-> "RUB", amount |-> -5,  description |-> "d"] }

AuditChats == {1}

AuditInputs ==
  { [type |-> "Income",         currency |-> "USD", amount |-> 10,  description |-> "d"],
    [type |-> "PPPayment",      currency |-> "RUB", amount |-> 5,   description |-> "d"],
    [type |-> "BankRequest",    currency |-> "USD", amount |-> 10,  description |-> "d"],
    [type |-> "PPRefund",       currency |-> "RUB", amount |-> -10, description |-> "d"],
    [type |-> "CashDeposit",    currency |-> "RUB", amount |-> -5,  description |-> "d"] }

IncomeInputs ==
  { [currency |-> "USD", amount |-> 10, description |-> "bank"] }

ManualConversions ==
  { [amount |-> 10, currency |-> "RUB", rate |-> 2, to_currency |-> "USD", description |-> ""],
    [amount |-> 10, currency |-> "CNY", rate |-> 2, to_currency |-> "RUB", description |-> "Fix"] }

(* the clock moves to just below or to the age at which an entry expires *)
ClockSteps == {CACHE_TTL - 1, CACHE_TTL}

(* arguments offered to compute_conversion_to_amount: every amount is a    *)
(* multiple of every positive rate                                         *)
MathAmounts == {0, 10, 20, 50}

MathRates == {-1, 0, 1, 2, 5}

MathCurrencies == AllCurrencies \cup {""}

(* ------------------------------ helpers -------------------------------- *)
Abs(x) == IF x < 0 THEN -x ELSE x

RECURSIVE SumAmount(_)
SumAmount(S) ==
  IF S = {} THEN 0
  ELSE LET e == CHOOSE x \in S : TRUE IN e.amount + SumAmount(S \ {e})

EntriesOf(d, chat_id, currency) ==
  {e \in d.operations : e.chat_id = chat_id /\ e.currency = currency}

(* SELECT COALESCE(SUM(amount), 0) FROM operations WHERE chat_id, currency *)
SumOf(d, chat_id, currency) == SumAmount(EntriesOf(d, chat_id, currency))

(* INSERT OR IGNORE INTO balances (chat_id, currency, 0.0) for CURRENCIES *)
InitBalanceRows(bal, chat_id) ==
  [k \in DOMAIN bal \cup {<<chat_id, c>> : c \in CURRENCIES} |->
      IF k \in DOMAIN bal THEN bal[k] ELSE 0]

(* INSERT ... ON CONFLICT(chat_id, currency) DO UPDATE SET balance = balance + ? *)
UpsertAdd(bal, chat_id, currency, amount) ==
  [k \in DOMAIN bal \cup {<<chat_id, currency>>} |->
      IF k = <<chat_id, currency>>
        THEN (IF k \in DOMAIN bal THEN bal[k] + amount ELSE amount)
        ELSE bal[k]]

(* INSERT ... ON CONFLICT(chat_id, currency) DO UPDATE SET balance = ? *)
UpsertSet(bal, chat_id, currency, total) ==
  [k \in DOMAIN bal \cup {<<chat_id, currency>>} |->
      IF k = <<chat_id, currency>> THEN total ELSE bal[k]]

(* ------------------------------ Database ------------------------------- *)
EmptyDb == [operations |-> {}, balances |-> << >>, chats |-> {}, seq |-> 0]

register_chat(d, chat_id) ==
  [d EXCEPT !.chats = @ \cup {chat_id},
            !.balances = InitBalanceRows(@, chat_id)]

(* add_operation with the balance row overwritten instead of incremented  *)
legacy_add_operation_overwrite(d, chat_id, operation_type, currency, amount, description, ts, uid) ==
  LET d1 == IF chat_id \in d.chats THEN d ELSE register_chat(d, chat_id)
      operation_id == d1.seq + 1
      row == [id |-> operation_id, chat_id |-> chat_id,
              operation_type |-> operation_type, currency |-> currency,
              amount |-> amount, description |-> description,
              timestamp |-> ts, uid |-> uid]
  IN [d1 EXCEPT !.operations = @ \cup {row},
                !.seq = operation_id,
                !.balances = UpsertSet(@, chat_id, currency, amount)]

(* src/database.py: every statement autocommits; the entry is inserted    *)
(* and the balance row incremented.                                        *)
legacy_add_operation(d, chat_id, operation_type, currency, amount, description, ts, uid) ==
  LET d1 == IF chat_id \in d.chats THEN d ELSE register_chat(d, chat_id)
      operation_id == d1.seq + 1
      row == [id |-> operation_id, chat_id |-> chat_id,
              operation_type |-> operation_type, currency |-> currency,
              amount |-> amount, description |-> description,
              timestamp |-> ts, uid |-> uid]
  IN [d1 EXCEPT !.operations = @ \cup {row},
                !.seq = operation_id,
                !.balances = UpsertAdd(@, chat_id, currency, amount)]

(* src/app/db/database.py: the method ends after the INSERT statements;   *)
(* there is no balance update, no commit and no close, so the open        *)
(* transaction is rolled back when the connection is discarded.           *)
app_add_operation(d, chat_id, operation_type, currency, amount, description, ts, uid) ==
  d

add_operation(im, d, chat_id, operation_type, currency, amount, description, ts, uid) ==
  IF im = "legacy"
    THEN legacy_add_operation(d, chat_id, operation_type, currency, amount, description, ts, uid)
    ELSE app_add_operation(d, chat_id, operation_type, currency, amount, description, ts, uid)

is_duplicate_operation(d, chat_id, amount, currency, description, t) ==
  \E e \in d.operations :
     /\ e.chat_id = chat_id
     /\ e.amount = amount
     /\ e.currency = currency
     /\ e.description = description
     /\ e.timestamp >= t - TIME_WINDOW

get_balance(d, chat_id, currency) ==
  IF <<chat_id, currency>> \in DOMAIN d.balances
    THEN d.balances[<<chat_id, currency>>] ELSE 0

HasBalanceRows(d, chat_id) == \E k \in DOMAIN d.balances : k[1] = chat_id

(* get_balances inserts the CURRENCIES rows when the chat has none *)
get_balances_db(d, chat_id) ==
  IF HasBalanceRows(d, chat_id) THEN d
  ELSE [d EXCEPT !.balances = InitBalanceRows(@, chat_id)]

get_balances(d, chat_id) ==
  LET d1 == get_balances_db(d, chat_id)
  IN [c \in {k[2] : k \in {x \in DOMAIN d1.balances : x[1] = chat_id}} \cup CURRENCIES |->
        get_balance(d1, chat_id, c)]

RECURSIVE IdDesc(_)
IdDesc(S) ==
  IF S = {} THEN << >>
  ELSE LET m == CHOOSE x \in S : \A y \in S : y.id <= x.id
       IN <<m>> \o IdDesc(S \ {m})

(* ORDER BY id DESC LIMIT ?, optionally filtered by currency ("" = None) *)
get_operations(d, chat_id, limit, currency) ==
  LET S == {e \in d.operations :
               e.chat_id = chat_id /\ (currency = "" \/ e.currency = currency)}
      all == IdDesc(S)
  IN SubSeq(all, 1, IF Len(all) < limit THEN Len(all) ELSE limit)

delete_operation_found(d, chat_id, operation_id) ==
  \E e \in d.operations : e.id = operation_id /\ e.chat_id = chat_id

(* delete_operation without the balance rollback *)
delete_operation_no_rollback(d, chat_id, operation_id) ==
  IF ~delete_operation_found(d, chat_id, operation_id) THEN d
  ELSE [d EXCEPT
          !.operations = {e \in @ : ~(e.id = operation_id /\ e.chat_id = chat_id)}]

(* delete_operation that looks the row up by id alone *)
delete_operation_any_scope(d, chat_id, operation_id) ==
  IF ~(\E e \in d.operations : e.id = operation_id) THEN d
  ELSE LET row == CHOOSE e \in d.operations : e.id = operation_id
       IN [d EXCEPT
             !.operations = {e \in @ : e.id # operation_id},
             !.balances = [k \in DOMAIN @ |->
                             IF k = <<chat_id, row.currency>>
                               THEN @[k] - row.amount ELSE @[k]]]

delete_operation(d, chat_id, operation_id) ==
  IF ~delete_operation_found(d, chat_id, operation_id) THEN d
  ELSE LET row == CHOOSE e \in d.operations :
                     e.id = operation_id /\ e.chat_id = chat_id
       IN [d EXCEPT
             !.operations = {e \in @ : ~(e.id = operation_id /\ e.chat_id = chat_id)},
             !.balances = [k \in DOMAIN @ |->
                             IF k = <<chat_id, row.currency>>
                               THEN @[k] - row.amount ELSE @[k]]]

clear_all(d) == [d EXCEPT !.operations = {}, !.chats = {}]

(* recalculate with the zeroing UPDATE lacking its WHERE clause *)
recalculate_chat_zero_all(d, cid) ==
  LET zeroed == [k \in DOMAIN d.balances |-> 0]
  IN [d EXCEPT !.balances =
        [k \in DOMAIN zeroed \cup {<<cid, c>> : c \in CURRENCIES} |->
           IF k[1] = cid /\ k[2] \in CURRENCIES
             THEN SumOf(d, cid, k[2])
             ELSE zeroed[k]]]

(* One iteration of the "for (cid,) in chats" loop *)
recalculate_chat(d, cid) ==
  LET zeroed == [k \in DOMAIN d.balances |->
                   IF k[1] = cid THEN 0 ELSE d.balances[k]]
  IN [d EXCEPT !.balances =
        [k \in DOMAIN zeroed \cup {<<cid, c>> : c \in CURRENCIES} |->
           IF k[1] = cid /\ k[2] \in CURRENCIES
             THEN SumOf(d, cid, k[2])
             ELSE zeroed[k]]]

RECURSIVE recalculate_each(_, _)
recalculate_each(d, cs) ==
  IF cs = {} THEN d
  ELSE LET c == CHOOSE x \in cs : TRUE
       IN recalculate_each(recalculate_chat(d, c), cs \ {c})

(* chat_id = 0 stands for None: SELECT DISTINCT chat_id FROM operations *)
recalculate_balances(d, chat_id) ==
  IF chat_id # 0 THEN recalculate_chat(d, chat_id)
  ELSE recalculate_each(d, {e.chat_id : e \in d.operations})

(* ------------------------------- audit --------------------------------- *)
positive_expenses(d) ==
  {e \in d.operations : e.operation_type \in expense_types /\ e.amount > 0}

negative_incomes(d) ==
  {e \in d.operations : e.operation_type \in income_types /\ e.amount < 0}

all_keys(d) ==
  {<<e.chat_id, e.currency>> : e \in d.operations} \cup DOMAIN d.balances

(* the drift test with a tolerance of 0.01 *)
balance_drift_cent(d) ==
  {k \in all_keys(d) :
      Abs(SumOf(d, k[1], k[2]) - get_balance(d, k[1], k[2])) > 10}

balance_drift(d) ==
  {k \in all_keys(d) :
      Abs(SumOf(d, k[1], k[2]) - get_balance(d, k[1], k[2])) > DRIFT_THRESHOLD}

verify_financial_integrity(d) ==
  {[kind |-> "PositiveExpense", id |-> e.id, chat_id |-> e.chat_id, currency |-> e.currency] :
       e \in positive_expenses(d)}
  \cup
  {[kind |-> "NegativeIncome", id |-> e.id, chat_id |-> e.chat_id, currency |-> e.currency] :
       e \in negative_incomes(d)}
  \cup
  {[kind |-> "BalanceDrift", id |-> 0, chat_id |-> k[1], currency |-> k[2]] :
       k \in balance_drift(d)}

(* --------------------------- settlement math --------------------------- *)
(* if rate <= 0: raise ValueError *)
compute_conversion_to_amount_raises(amount, rate, from_curr, to_curr) == rate <= 0

(* the conversion with the division applied to strong -> weak as well *)
compute_conversion_to_amount_strong_divides(amount, rate, from_curr, to_curr) ==
  IF from_curr \in strong /\ to_curr \in weak THEN amount \div rate
  ELSE IF from_curr \in weak /\ to_curr \in strong THEN amount \div rate
  ELSE amount * rate

(* the value returned when rate > 0; amounts and rates of the inputs are   *)
(* chosen so that the division is exact                                    *)
compute_conversion_to_amount(amount, rate, from_curr, to_curr) ==
  IF from_curr \in strong /\ to_curr \in weak THEN amount * rate
  ELSE IF from_curr \in weak /\ to_curr \in strong THEN amount \div rate
  ELSE IF from_curr \in weak /\ to_curr \in weak THEN amount * rate
  ELSE IF from_curr \in strong /\ to_curr \in strong THEN amount * rate
  ELSE amount * rate

(* --------------------------- operation queue --------------------------- *)
(* operation_queue is a dict chat_id -> list; it is kept as the sequence   *)
(* of its items in key insertion order.                                    *)
QueueKeys(q) == {q[i].chat_id : i \in 1..Len(q)}

QueueOps(q, chat_id) ==
  IF chat_id \in QueueKeys(q)
    THEN q[CHOOSE i \in 1..Len(q) : q[i].chat_id = chat_id].ops
    ELSE << >>

(* operation_queue[chat_id].append({...}) on a defaultdict(list) *)
queue_operation(q, chat_id, op) ==
  IF chat_id \in QueueKeys(q)
    THEN [i \in 1..Len(q) |->
            IF q[i].chat_id = chat_id
              THEN [q[i] EXCEPT !.ops = Append(@, op)] ELSE q[i]]
    ELSE Append(q, [chat_id |-> chat_id, ops |-> <<op>>])

(* del operation_queue[chat_id] / operation_queue.pop(chat_id, None) *)
QueueDelete(q, chat_id) == SelectSeq(q, LAMBDA it : it.chat_id # chat_id)

MkOp(type, currency, amount, description, uid) ==
  [type |-> type, currency |-> currency, amount |-> amount,
   description |-> description, uid |-> uid]

(* a cache from which nothing is ever popped *)
invalidate_balance_cache_keeps(cache, chat_id) == cache

(* balance_cache.pop(chat_id, None); balance_cache_time.pop(chat_id, None) *)
invalidate_balance_cache(cache, chat_id) ==
  [c \in DOMAIN cache \ {chat_id} |-> cache[c]]

(* ------------------------- updates and calls --------------------------- *)
(* update: the last update dispatched to handle_text; reply: the text of   *)
(* the last message.reply_text of that call ("" when it sent none);        *)
(* call: the last call of a pure function, with its arguments and result.  *)
NoUpdate ==
  [chat_id |-> 0, is_private |-> FALSE, user_id |-> 0, group_tag |-> << >>,
   internal_report |-> FALSE, looks_like_bank_income |-> FALSE,
   income |-> << >>, bulk |-> << >>, manual |-> << >>, date |-> 0, forward_date |-> 0]

NoCall == [fn |-> "none", args |-> << >>, done |-> TRUE, raised |-> FALSE,
           value |-> 0, decimals |-> 0]

(* ------------------------------- Init ---------------------------------- *)
InitProgram ==
  /\ impl \in Impls
  /\ db = EmptyDb
  /\ operation_queue = << >>
  /\ pc = "sleep"
  /\ queue_snapshot = << >>
  /\ op_idx = 1
  /\ balance_cache = << >>
  /\ now = 0
  /\ issues = {}
  /\ hist = [accepted |-> 0, commit_failed |-> FALSE, failures |-> 0, snap_db |-> EmptyDb, pairs |-> {}, incomes |-> {}, handled |-> 0,
             reads |-> 0, dropped |-> {}, cycle |-> << >>, failed |-> {}, returned |-> {}]
  /\ update = NoUpdate
  /\ reply = ""
  /\ queue_lock = ""
  /\ maintenance_mode = FALSE
  /\ clock = 0
  /\ balance_cache_time = << >>

Init == InitProgram /\ call = NoCall

(* ------------------------------ producers ------------------------------ *)
(* A caller other than handle_text awaits queue_operation with one op.     *)
QueueOperation(chat_id, o) ==
  /\ pc = "sleep"
  /\ hist.accepted < MaxOps
  /\ operation_queue' = queue_operation(operation_queue, chat_id,
        MkOp(o.type, o.currency, o.amount, o.description, hist.accepted + 1))
  /\ hist' = [hist EXCEPT !.accepted = @ + 1]
  /\ UNCHANGED <<queue_lock, maintenance_mode, clock, balance_cache_time, update, reply, call, impl, db, pc, queue_snapshot, op_idx, balance_cache, now, issues>>

(* handle_text on a bank notification sent in a group chat.                *)
(* legacy: the income is queued for the chat.                              *)
(* app: queue_operation is called with the keyword timestamp=, which its   *)
(* signature does not accept, so the call raises TypeError and nothing is  *)
(* enqueued.  Neither generation calls is_duplicate_operation.             *)
HandleTextIncome(chat_id, income) ==
  /\ pc = "sleep"
  /\ hist.accepted < MaxOps
  /\ Cardinality(hist.incomes) < MaxOps
  /\ db' = register_chat(db, chat_id)
  /\ IF impl = "legacy"
       THEN /\ operation_queue' = queue_operation(operation_queue, chat_id,
                  MkOp("Income", income.currency, income.amount,
                       income.description, hist.accepted + 1))
            /\ hist' = [hist EXCEPT
                  !.accepted = @ + 1,
                  !.incomes = @ \cup {[n |-> Cardinality(@) + 1, chat_id |-> chat_id,
                                       currency |-> income.currency,
                                       amount |-> income.amount,
                                       description |-> income.description,
                                       at |-> now, queued |-> TRUE]}]
       ELSE /\ operation_queue' = operation_queue
            /\ hist' = [hist EXCEPT
                  !.incomes = @ \cup {[n |-> Cardinality(@) + 1, chat_id |-> chat_id,
                                       currency |-> income.currency,
                                       amount |-> income.amount,
                                       description |-> income.description,
                                       at |-> now, queued |-> FALSE]}]
  /\ UNCHANGED <<queue_lock, maintenance_mode, clock, balance_cache_time, update, reply, call, impl, pc, queue_snapshot, op_idx, balance_cache, now, issues>>

(* The two legs that handle_text queues for a conversion with rate > 0.    *)
ConversionLegs(im, manual, uid) ==
  IF im = "legacy"
    THEN LET to_amount == compute_conversion_to_amount(
                manual.amount, manual.rate, manual.currency, manual.to_currency)
         IN << MkOp("Conversion", manual.to_currency, -to_amount, manual.description, uid),
               MkOp("Conversion", manual.currency, manual.amount, manual.description, uid + 1) >>
    ELSE IF manual.description = "Fix"
      THEN LET pay_amount == manual.amount * manual.rate
           IN << MkOp("Conversion", manual.currency, manual.amount, manual.description, uid),
                 MkOp("Conversion", manual.to_currency, -pay_amount, manual.description, uid + 1) >>
      ELSE LET to_amount == compute_conversion_to_amount(
                  manual.amount, manual.rate, manual.currency, manual.to_currency)
           IN << MkOp("Conversion", manual.currency, -manual.amount, manual.description, uid),
                 MkOp("Conversion", manual.to_currency, to_amount, manual.description, uid + 1) >>

(* handle_text on a conversion line typed by a staff member in a group     *)
(* chat: both legs are appended with no suspension point in between.       *)
HandleTextConversion(chat_id, manual) ==
  /\ pc = "sleep"
  /\ hist.accepted + 2 <= MaxOps
  /\ manual.rate > 0
  /\ db' = register_chat(db, chat_id)
  /\ LET legs == ConversionLegs(impl, manual, hist.accepted + 1)
     IN operation_queue' =
          queue_operation(queue_operation(operation_queue, chat_id, legs[1]),
                          chat_id, legs[2])
  /\ hist' = [hist EXCEPT !.accepted = @ + 2,
                          !.pairs = @ \cup {<<hist.accepted + 1, hist.accepted + 2>>}]
  /\ UNCHANGED <<queue_lock, maintenance_mode, clock, balance_cache_time, update, reply, call, impl, pc, queue_snapshot, op_idx, balance_cache, now, issues>>

(* ------------------------------ handle_text ---------------------------- *)
(* src/app/handlers/operations.py.  A chat or group name is the sequence   *)
(* of its lower-case words; << >> stands for None or "".  The texts of the *)
(* replies are abbreviated:                                                *)
(*   NeedGroup = "V lichnom chate ukazhi gruppu ...", GroupNotFound =      *)
(*   "Gruppa ... ne najdena", RateMustBePositive = "Kurs dolzhen byt'      *)
(*   bol'she 0", BulkDone, BuyFX, CashOut = the three confirmations.       *)
(* Parsed types: ManualBuyFX = "Manual Buy FX"; descriptions: Fix =        *)
(*   "Fiks", "CashWithdrawal (internal_report)" = "Vydacha nalichnyh       *)
(*   (internal_report)", "FX: Buy" = f"FX: Buy {currency} rate {rate}".    *)
REPORT_CHAT_ID == 1

TEAM_MEMBER_IDS == {100}

Users == {100, 200}

HandlerChats == {1, 2, 3}

NoGroup == << >>

(* chat.title or chat.first_name of each chat, normalised *)
ChatName(c) ==
  CASE c = 1 -> <<"report">>
    [] c = 2 -> <<"uz", "group">>
    [] OTHER -> <<"ivan">>

CHAT_ALIASES == [canonical \in {<<"uz">>} |-> {<<"uzb">>}]

GroupTags == {NoGroup, <<"uzb">>, <<"xx">>}

(* is_staff that takes every sender for a team member *)
is_staff_anyone(user_id) == user_id # 0

(* user_id 0 stands for None *)
is_staff(user_id) == user_id # 0 /\ user_id \in TEAM_MEMBER_IDS

normalize_group_name(name) ==
  IF name = NoGroup THEN NoGroup
  ELSE IF \E k \in DOMAIN CHAT_ALIASES : name = k \/ name \in CHAT_ALIASES[k]
    THEN CHOOSE k \in DOMAIN CHAT_ALIASES : name = k \/ name \in CHAT_ALIASES[k]
    ELSE name

(* "wanted in n", at the granularity of whole words *)
IsSubstring(wanted, n) ==
  \E i \in 1..(Len(n) - Len(wanted) + 1) : SubSeq(n, i, i + Len(wanted) - 1) = wanted

NameWords(n) == {n[i] : i \in 1..Len(n)}

NameScore(wanted, n) ==
  IF IsSubstring(wanted, n) THEN 100 + Len(wanted)
  ELSE 10 * Cardinality(NameWords(wanted) \cap NameWords(n))

(* 0 stands for None.  The chats' names are those of ChatName; among the   *)
(* chats of equal best score the code takes the one of the latest          *)
(* interaction, which the names used here never have to decide.            *)
get_chat_id_by_name(d, name) ==
  IF name = NoGroup \/ d.chats = {} THEN 0
  ELSE IF \E c \in d.chats : ChatName(c) = name
    THEN CHOOSE c \in d.chats : ChatName(c) = name
    ELSE LET best_id == CHOOSE c \in d.chats :
                          \A o \in d.chats : NameScore(name, ChatName(o)) <= NameScore(name, ChatName(c))
         IN IF NameScore(name, ChatName(best_id)) >= 20 THEN best_id ELSE 0

(* resolve_target_chat_id that falls back to the chat itself when a        *)
(* private chat gives no group                                             *)
resolve_target_chat_id_own_chat(d, chat_id, is_private, group_from_manual) ==
  IF is_private /\ group_from_manual # NoGroup
    THEN IF get_chat_id_by_name(d, group_from_manual) = 0
           THEN [raised |-> TRUE, error |-> "GroupNotFound", chat_id |-> 0]
           ELSE [raised |-> FALSE, error |-> "",
                 chat_id |-> get_chat_id_by_name(d, group_from_manual)]
    ELSE [raised |-> FALSE, error |-> "", chat_id |-> chat_id]

(* the ValueError of resolve_target_chat_id is the field raised *)
resolve_target_chat_id(d, chat_id, is_private, group_from_manual) ==
  IF is_private
    THEN IF group_from_manual = NoGroup
           THEN [raised |-> TRUE, error |-> "NeedGroup", chat_id |-> 0]
         ELSE IF get_chat_id_by_name(d, group_from_manual) = 0
           THEN [raised |-> TRUE, error |-> "GroupNotFound", chat_id |-> 0]
         ELSE [raised |-> FALSE, error |-> "",
               chat_id |-> get_chat_id_by_name(d, group_from_manual)]
    ELSE [raised |-> FALSE, error |-> "", chat_id |-> chat_id]

(* the parameters of "async def queue_operation" of src/app *)
queue_operation_parameters == {"chat_id", "op_type", "currency", "amount", "description"}

(* round(x, ndigits) of an amount x in units of 0.001: with ndigits >= 3   *)
(* x is a multiple of 10^-ndigits already; below, halves go to the even    *)
(* neighbour                                                               *)
round(x, ndigits) ==
  IF ndigits >= 3 THEN x
  ELSE LET unit == 10^(3 - ndigits)
           q == x \div unit
           r == x % unit
       IN IF 2 * r < unit THEN q * unit
          ELSE IF 2 * r > unit THEN (q + 1) * unit
          ELSE IF q % 2 = 0 THEN q * unit ELSE (q + 1) * unit

(* the payment leg of a fix computed with the table of the generic path *)
pay_amount_by_class(amount, rate, currency, to_curr) ==
  compute_conversion_to_amount(amount, rate, currency, to_curr)

(* pay_amount = round(amount * rate, 6) of the fix path; the currencies    *)
(* have no part in it                                                      *)
pay_amount(amount, rate, currency, to_curr) == round(amount * rate, 6)

(* step 4 of handle_text: the [GROUP] tag counts in a private chat only,   *)
(* and not when the text starts with [internal_report]                     *)
GroupName(m) ==
  IF m.is_private /\ ~m.internal_report /\ m.group_tag # NoGroup
    THEN normalize_group_name(m.group_tag)
    ELSE NoGroup

(* message.forward_origin.date / message.forward_date (0: not a forward),  *)
(* else message.date                                                       *)
MsgDate(m) == IF m.forward_date # 0 THEN m.forward_date ELSE m.date

(* what one call of handle_text did: the queue it left, its reply, the     *)
(* number of operations it appended, and (income_target # 0) the target of *)
(* the auto-detected income it passed to queue_operation                   *)
Handled(q, r, n, income_target) ==
  [queue |-> q, reply |-> r, n |-> n, income_target |-> income_target]

(* step 5, "if looks_like_bank_income(clean_text)".  The call              *)
(* queue_operation(..., timestamp=msg_date) raises TypeError because       *)
(* timestamp is no parameter of queue_operation.                           *)
HandleAutoIncome(d, q, m, uid) ==
  LET group_name == GroupName(m)
      income == m.income
      target_chat_id ==
        IF m.chat_id = REPORT_CHAT_ID THEN REPORT_CHAT_ID
        ELSE IF m.is_private THEN get_chat_id_by_name(d, group_name)
        ELSE m.chat_id
  IN IF ~income.parsed THEN Handled(q, "", 0, 0)
     ELSE IF m.chat_id # REPORT_CHAT_ID /\ m.is_private /\ group_name = NoGroup
       THEN Handled(q, "NeedGroup", 0, 0)
     ELSE IF m.chat_id # REPORT_CHAT_ID /\ m.is_private /\ target_chat_id = 0
       THEN Handled(q, "GroupNotFound", 0, 0)
     ELSE IF "timestamp" \in queue_operation_parameters
       THEN Handled(queue_operation(q, target_chat_id,
                       MkOp("Income", income.currency, income.amount, income.description, uid)),
                    "", 1, target_chat_id)
       ELSE Handled(q, "", 0, target_chat_id)

(* "for item in bulk": items whose group is not found are skipped *)
RECURSIVE QueueBulk(_, _, _, _)
QueueBulk(d, q, bulk, uid) ==
  IF bulk = << >> THEN [queue |-> q, n |-> 0]
  ELSE LET item == Head(bulk)
           target_chat_id == get_chat_id_by_name(d, normalize_group_name(item.group))
       IN IF target_chat_id = 0 THEN QueueBulk(d, q, Tail(bulk), uid)
          ELSE LET rest == QueueBulk(d,
                             queue_operation(q, target_chat_id,
                                MkOp("PPPayment", item.currency, -item.amount, item.description, uid)),
                             Tail(bulk), uid + 1)
               IN [queue |-> rest.queue, n |-> rest.n + 1]

(* a sign that is +1 for every type *)
sign_positive(op_type) == 1

(* sign = -1 if op_type in ("Выдача наличных", "Оплата ПП", "Комиссия")    *)
(* else 1                                                                  *)
sign(op_type) ==
  IF op_type \in {"CashWithdrawal", "PPPayment", "Commission"} THEN -1 ELSE 1

(* the manual operations of a staff member, from resolve_target_chat_id on *)
HandleManual(d, q, m, uid) ==
  LET manual == m.manual
      group_name == GroupName(m)
      res == resolve_target_chat_id(d, m.chat_id, m.is_private, group_name)
      is_internal ==
        \/ manual.type = "ManualBuyFX"
        \/ /\ manual.type = "CashWithdrawal"
           /\ manual.description = "CashWithdrawal (internal_report)"
      default_to_chat == is_internal /\ m.is_private /\ group_name = NoGroup
      target_chat_id == IF res.raised THEN m.chat_id ELSE res.chat_id
      op_type == manual.type
      amount == manual.amount
      currency == manual.currency
      desc == manual.description
      rate == manual.rate
      to_curr == manual.to_currency
  IN IF res.raised /\ ~default_to_chat THEN Handled(q, res.error, 0, 0)
     ELSE IF op_type = "ManualBuyFX"
       THEN LET rub_amount == amount * rate
            IN Handled(queue_operation(
                         queue_operation(q, target_chat_id,
                            MkOp("InternalExchange", currency, amount, "FX: Buy", uid)),
                         target_chat_id,
                         MkOp("InternalExchange", "RUB", -rub_amount, "FX: Buy", uid + 1)),
                       "BuyFX", 2, 0)
     ELSE IF op_type = "CashWithdrawal" /\ desc = "CashWithdrawal (internal_report)"
       THEN Handled(queue_operation(q, target_chat_id,
                       MkOp(op_type, currency, -amount, desc, uid)),
                    "CashOut", 1, 0)
     ELSE IF op_type = "Conversion"
       THEN IF rate <= 0 THEN Handled(q, "RateMustBePositive", 0, 0)
            ELSE IF desc = "Fix"
              THEN Handled(queue_operation(
                             queue_operation(q, target_chat_id,
                                MkOp("Conversion", currency, amount, desc, uid)),
                             target_chat_id,
                             MkOp("Conversion", to_curr,
                                  -pay_amount(amount, rate, currency, to_curr), desc, uid + 1)),
                           "", 2, 0)
              ELSE LET to_amount == compute_conversion_to_amount(amount, rate, currency, to_curr)
                   IN Handled(queue_operation(
                                queue_operation(q, target_chat_id,
                                   MkOp("Conversion", currency, -amount, desc, uid)),
                                target_chat_id,
                                MkOp("Conversion", to_curr, to_amount, desc, uid + 1)),
                              "", 2, 0)
     ELSE Handled(queue_operation(q, target_chat_id,
                     MkOp(op_type, currency, sign(op_type) * amount, desc, uid)),
                  "", 1, 0)

(* handle_text in which a detected but unparsable notification goes on to  *)
(* the later stages                                                        *)
handle_text_falls_through(d, q, m, uid) ==
  LET staff == is_staff(m.user_id)
  IN IF m.looks_like_bank_income /\ m.income.parsed THEN HandleAutoIncome(d, q, m, uid)
     ELSE IF staff /\ m.bulk # << >>
       THEN LET b == QueueBulk(d, q, m.bulk, uid)
            IN Handled(b.queue, "BulkDone", b.n, 0)
     ELSE IF ~staff THEN Handled(q, "", 0, 0)
     ELSE IF ~m.manual.parsed THEN Handled(q, "", 0, 0)
     ELSE HandleManual(d, q, m, uid)

(* handle_text after db.register_chat: d is the store with the chat        *)
(* registered, q the queue, uid the number of the next operation           *)
handle_text(d, q, m, uid) ==
  LET staff == is_staff(m.user_id)
  IN IF m.looks_like_bank_income THEN HandleAutoIncome(d, q, m, uid)
     ELSE IF staff /\ m.bulk # << >>
       THEN LET b == QueueBulk(d, q, m.bulk, uid)
            IN Handled(b.queue, "BulkDone", b.n, 0)
     ELSE IF ~staff THEN Handled(q, "", 0, 0)
     ELSE IF ~m.manual.parsed THEN Handled(q, "", 0, 0)
     ELSE HandleManual(d, q, m, uid)

(* ------------------------------- updates -------------------------------- *)
NoIncome == [parsed |-> FALSE, currency |-> "", amount |-> 0, description |-> ""]

NoManual ==
  [parsed |-> FALSE, type |-> "", amount |-> 0, currency |-> "", rate |-> 0,
   to_currency |-> "", description |-> ""]

Manual(type, amount, currency, rate, to_currency, description) ==
  [parsed |-> TRUE, type |-> type, amount |-> amount, currency |-> currency,
   rate |-> rate, to_currency |-> to_currency, description |-> description]

Content(internal_report, looks, income, bulk, manual, forward_date) ==
  [internal_report |-> internal_report, looks_like_bank_income |-> looks,
   income |-> income, bulk |-> bulk, manual |-> manual, forward_date |-> forward_date]

BankIncome == [parsed |-> TRUE, currency |-> "USD", amount |-> 10, description |-> "bank"]

BulkList ==
  << [group |-> <<"uz">>, currency |-> "RUB", amount |-> 5, description |-> "co | rcv"],
     [group |-> <<"xx">>, currency |-> "RUB", amount |-> 5, description |-> "co | rcv"] >>

(* what the parsers of src/app/services/parser.py return on the texts      *)
(* offered: a bank notification (forwarded or not), a text that looks like *)
(* one but has no amount, a bulk list, the lines of                        *)
(* parse_manual_operation_line, and a text that is none of these           *)
Contents ==
  { Content(FALSE, TRUE, BankIncome, << >>, NoManual, 0),
    Content(FALSE, TRUE, BankIncome, << >>, NoManual, 1),
    Content(FALSE, TRUE, NoIncome, << >>, NoManual, 0),
    Content(FALSE, FALSE, NoIncome, BulkList, NoManual, 0),
    Content(FALSE, FALSE, NoIncome, << >>, Manual("Conversion", 10, "CNY", 2, "RUB", "Fix"), 0),
    Content(FALSE, FALSE, NoIncome, << >>, Manual("Conversion", 10, "RUB", 2, "USD", "Fix"), 0),
    Content(FALSE, FALSE, NoIncome, << >>, Manual("Conversion", 10, "CNY", 0, "RUB", "Fix"), 0),
    Content(TRUE,  FALSE, NoIncome, << >>, Manual("ManualBuyFX", 10, "EUR", 2, "", "FX: Buy"), 0),
    Content(FALSE, FALSE, NoIncome, << >>, Manual("ManualBuyFX", 10, "EUR", 2, "", "FX: Buy"), 0),
    Content(TRUE,  FALSE, NoIncome, << >>, Manual("ManualBuyFX", 10, "EUR", 0, "", "FX: Buy"), 0),
    Content(TRUE,  FALSE, NoIncome, << >>,
            Manual("CashWithdrawal", 5, "USD", 0, "", "CashWithdrawal (internal_report)"), 0),
    Content(FALSE, FALSE, NoIncome, << >>, Manual("CashWithdrawal", 5, "USD", 0, "", "Vydacha"), 0),
    Content(FALSE, FALSE, NoIncome, << >>, Manual("PPRefund", 5, "USD", 0, "", "Vozvrat pp"), 0),
    Content(FALSE, FALSE, NoIncome, << >>, NoManual, 0) }

AllMessages ==
  {[chat_id |-> c, is_private |-> p, user_id |-> u, group_tag |-> g,
    internal_report |-> x.internal_report,
    looks_like_bank_income |-> x.looks_like_bank_income,
    income |-> x.income, bulk |-> x.bulk, manual |-> x.manual,
    date |-> 2, forward_date |-> x.forward_date] :
      c \in HandlerChats, p \in BOOLEAN, u \in Users,
      g \in GroupTags, x \in Contents}

(* a text that starts with [internal_report] has no [GROUP] tag before it *)
Messages == {m \in AllMessages : m.internal_report => m.group_tag = NoGroup}

(* texts on which more than one stage of handle_text would match, and the *)
(* single-line rules with a sign: "postupili 0.01 usd" (detector, income   *)
(* parser and manual rule), "0.005 usd - vozvrat pp bank" (detector and    *)
(* manual rule, no income), a payment list naming "OOO" (detector and      *)
(* bulk parser), a list with a line "vydacha 0.005 usd" (bulk parser and   *)
(* manual rule), "prishli", "vznos nalichnymi", "oplata pp", "harbor       *)
(* komissiya", "zapros banku", "vydacha 0 usd", the internal cash out      *)
StageContents ==
  { Content(FALSE, TRUE, BankIncome, << >>,
            Manual("Income", 10, "USD", 0, "", "Postuplenie (manual)"), 0),
    Content(FALSE, TRUE, NoIncome, << >>, Manual("PPRefund", 5, "USD", 0, "", "Vozvrat pp"), 0),
    Content(FALSE, TRUE, NoIncome, BulkList, NoManual, 0),
    Content(FALSE, FALSE, NoIncome, BulkList, Manual("CashWithdrawal", 5, "USD", 0, "", "Vydacha"), 0),
    Content(FALSE, FALSE, NoIncome, BulkList, NoManual, 0),
    Content(FALSE, FALSE, NoIncome, << >>,
            Manual("Income", 10, "USD", 0, "", "Postuplenie (manual)"), 0),
    Content(FALSE, FALSE, NoIncome, << >>, Manual("CashDeposit", 10, "RUB", 0, "", "Vznos nalichnymi"), 0),
    Content(FALSE, FALSE, NoIncome, << >>, Manual("PPPayment", 5, "USD", 0, "", "Oplata PP"), 0),
    Content(FALSE, FALSE, NoIncome, << >>, Manual("Commission", 5, "USD", 0, "", "Harbor komissiya"), 0),
    Content(FALSE, FALSE, NoIncome, << >>, Manual("Commission", 5, "USD", 0, "", "Zapros banku"), 0),
    Content(FALSE, FALSE, NoIncome, << >>, Manual("CashWithdrawal", 0, "USD", 0, "", "Vydacha"), 0),
    Content(FALSE, FALSE, NoIncome, << >>, Manual("CashWithdrawal", 5, "USD", 0, "", "Vydacha"), 0),
    Content(TRUE,  FALSE, NoIncome, << >>,
            Manual("CashWithdrawal", 5, "USD", 0, "", "CashWithdrawal (internal_report)"), 0) }

StageMessages ==
  {m \in
     {[chat_id |-> c, is_private |-> p, user_id |-> u, group_tag |-> g,
       internal_report |-> x.internal_report,
       looks_like_bank_income |-> x.looks_like_bank_income,
       income |-> x.income, bulk |-> x.bulk, manual |-> x.manual,
       date |-> 2, forward_date |-> x.forward_date] :
         c \in HandlerChats, p \in BOOLEAN, u \in Users,
         g \in GroupTags, x \in StageContents} :
     m.internal_report => m.group_tag = NoGroup}

(* the /start command (src/app/handlers/base.py) registers the chat *)
Start(chat_id) ==
  /\ pc = "sleep"
  /\ chat_id \notin db.chats
  /\ db' = register_chat(db, chat_id)
  /\ UNCHANGED <<queue_lock, maintenance_mode, clock, balance_cache_time, update, reply, call, impl, operation_queue, pc, queue_snapshot, op_idx, balance_cache, now, issues, hist>>

(* handle_text of src/app on the update m, up to its reply *)
HandleText(m) ==
  /\ impl = "app"
  /\ pc = "sleep"
  /\ hist.handled < MaxMsgs
  /\ update' = m
  /\ LET d1 == register_chat(db, m.chat_id)
         r == handle_text(d1, operation_queue, m, hist.accepted + 1)
     IN /\ db' = d1
        /\ operation_queue' = r.queue
        /\ reply' = r.reply
        /\ hist' = [hist EXCEPT
              !.accepted = @ + r.n,
              !.handled = @ + 1,
              !.incomes = IF r.income_target = 0 THEN @
                          ELSE @ \cup {[n |-> Cardinality(@) + 1, chat_id |-> r.income_target,
                                        currency |-> m.income.currency,
                                        amount |-> m.income.amount,
                                        description |-> m.income.description,
                                        at |-> MsgDate(m), queued |-> r.n = 1]}]
  /\ UNCHANGED <<queue_lock, maintenance_mode, clock, balance_cache_time, call, impl, pc, queue_snapshot, op_idx, balance_cache, now, issues>>

(* ----------------------- process_operation_batch ----------------------- *)
(* The task wakes, and with a non-empty queue takes queue_snapshot =       *)
(* dict(operation_queue).  It reaches no suspension point again until the  *)
(* for loop over the snapshot has ended, so no handler runs in between.    *)
FlushSnapshot ==
  /\ pc = "sleep"
  /\ operation_queue # << >>
  /\ queue_snapshot' = operation_queue
  /\ op_idx' = 1
  /\ pc' = "commit"
  /\ hist' = [hist EXCEPT !.snap_db = db, !.cycle = operation_queue, !.failed = {}]
  /\ UNCHANGED <<queue_lock, maintenance_mode, clock, balance_cache_time, update, reply, call, impl, db, operation_queue, balance_cache, now, issues>>

CurrentItem == queue_snapshot[1]

(* hist.snap_db remembers the store as it was when the cycle began,       *)
(* hist.cycle the snapshot the cycle took, hist.failed the chats whose     *)
(* batch raised in it, hist.returned the operations for which              *)
(* db.add_operation has returned, hist.dropped the chats for which a       *)
(* cache entry was popped after their batch                                *)
NextScope(h) ==
  /\ queue_snapshot' = Tail(queue_snapshot)
  /\ op_idx' = 1
  /\ pc' = IF Len(queue_snapshot) = 1 THEN "sleep" ELSE "commit"
  /\ hist' = IF Len(queue_snapshot) = 1 THEN [h EXCEPT !.snap_db = EmptyDb] ELSE h

(* db.add_operation(chat_id, op[...]) returns *)
FlushAddOperation ==
  /\ pc = "commit"
  /\ op_idx <= Len(CurrentItem.ops)
  /\ LET op == CurrentItem.ops[op_idx]
     IN db' = add_operation(impl, db, CurrentItem.chat_id, op.type, op.currency,
                            op.amount, op.description, now, op.uid)
  /\ op_idx' = op_idx + 1
  /\ hist' = [hist EXCEPT !.returned = @ \cup {CurrentItem.ops[op_idx].uid}]
  /\ UNCHANGED <<queue_lock, maintenance_mode, clock, balance_cache_time, update, reply, call, impl, operation_queue, pc, queue_snapshot, balance_cache, now, issues>>

(* a failure that ends the whole cycle: the rest of the snapshot is        *)
(* dropped                                                                 *)
FlushAddOperationFailsEndsCycle ==
  /\ pc = "commit"
  /\ op_idx <= Len(CurrentItem.ops)
  /\ hist.failures < MaxFails
  /\ queue_snapshot' = << >>
  /\ op_idx' = 1
  /\ pc' = "sleep"
  /\ hist' = [hist EXCEPT !.commit_failed = TRUE, !.failures = @ + 1,
                          !.failed = @ \cup {CurrentItem.chat_id},
                          !.snap_db = EmptyDb]
  /\ UNCHANGED <<queue_lock, maintenance_mode, clock, balance_cache_time, update, reply, call, impl, db, operation_queue, balance_cache, now, issues>>

(* db.add_operation raises (sqlite3.OperationalError, "database is        *)
(* locked"): the except clause logs and the loop goes to the next chat.    *)
FlushAddOperationFails ==
  /\ pc = "commit"
  /\ op_idx <= Len(CurrentItem.ops)
  /\ hist.failures < MaxFails
  /\ NextScope([hist EXCEPT !.commit_failed = TRUE, !.failures = @ + 1,
                            !.failed = @ \cup {CurrentItem.chat_id}])
  /\ UNCHANGED <<queue_lock, maintenance_mode, clock, balance_cache_time, update, reply, call, impl, db, operation_queue, balance_cache, now, issues>>

(* every op of the chat was added: the chat's key is deleted from the      *)
(* queue and its balance cache invalidated                                 *)
FlushScopeDone ==
  /\ pc = "commit"
  /\ op_idx > Len(CurrentItem.ops)
  /\ operation_queue' = QueueDelete(operation_queue, CurrentItem.chat_id)
  /\ balance_cache' = invalidate_balance_cache(balance_cache, CurrentItem.chat_id)
  /\ balance_cache_time' = invalidate_balance_cache(balance_cache_time, CurrentItem.chat_id)
  /\ NextScope([hist EXCEPT !.dropped =
                  IF CurrentItem.chat_id \in DOMAIN balance_cache
                    THEN @ \cup {CurrentItem.chat_id} ELSE @])
  /\ UNCHANGED <<queue_lock, maintenance_mode, clock, update, reply, call, impl, db, now, issues>>

(* -------------------- the flush task and queue_lock -------------------- *)
(* process_operation_batch and queue_operation at the grain of their       *)
(* `async with queue_lock` blocks.  queue_lock is "" when free, else the   *)
(* name of its holder.  No block contains an await, so the other task      *)
(* runs only when the flush task is in asyncio.sleep.                      *)
LockInputs ==
  { [type |-> "Income",         currency |-> "USD", amount |-> 10,  description |-> "d"],
    [type |-> "CashWithdrawal", currency |-> "USD", amount |-> -20, description |-> "d"] }

(* the first `async with queue_lock:` is entered *)
FlushLockSnapshot ==
  /\ pc = "sleep"
  /\ queue_lock = ""
  /\ queue_lock' = "flush"
  /\ pc' = "snapshot"
  /\ UNCHANGED <<maintenance_mode, clock, balance_cache_time, update, reply, call, impl, db, operation_queue, queue_snapshot, op_idx, balance_cache, now, issues, hist>>

(* the block that keeps the lock when it ends *)
FlushTakeSnapshotKeepsLock ==
  /\ pc = "snapshot"
  /\ queue_lock = "flush"
  /\ IF operation_queue = << >>
       THEN /\ pc' = "sleep"
            /\ queue_lock' = ""
            /\ UNCHANGED <<queue_snapshot, op_idx, hist>>
       ELSE /\ queue_snapshot' = operation_queue
            /\ op_idx' = 1
            /\ pc' = "commit"
            /\ queue_lock' = "flush"
            /\ hist' = [hist EXCEPT !.snap_db = db, !.cycle = operation_queue, !.failed = {}]
  /\ UNCHANGED <<maintenance_mode, clock, balance_cache_time, update, reply, call, impl, db, operation_queue, balance_cache, now, issues>>

(* inside it: `continue` with an empty queue, else the snapshot; the lock  *)
(* is released when the block ends                                         *)
FlushTakeSnapshot ==
  /\ pc = "snapshot"
  /\ queue_lock = "flush"
  /\ queue_lock' = ""
  /\ IF operation_queue = << >>
       THEN /\ pc' = "sleep"
            /\ UNCHANGED <<queue_snapshot, op_idx, hist>>
       ELSE /\ queue_snapshot' = operation_queue
            /\ op_idx' = 1
            /\ pc' = "commit"
            /\ hist' = [hist EXCEPT !.snap_db = db, !.cycle = operation_queue, !.failed = {}]
  /\ UNCHANGED <<maintenance_mode, clock, balance_cache_time, update, reply, call, impl, db, operation_queue, balance_cache, now, issues>>

(* every op of the chat was added: the second `async with queue_lock:` is  *)
(* entered                                                                 *)
FlushLockDelete ==
  /\ pc = "commit"
  /\ op_idx > Len(CurrentItem.ops)
  /\ queue_lock = ""
  /\ queue_lock' = "flush"
  /\ pc' = "delete"
  /\ UNCHANGED <<maintenance_mode, clock, balance_cache_time, update, reply, call, impl, db, operation_queue, queue_snapshot, op_idx, balance_cache, now, issues, hist>>

(* the chat's key is deleted, the lock released, the cache invalidated *)
FlushDelete ==
  /\ pc = "delete"
  /\ queue_lock = "flush"
  /\ queue_lock' = ""
  /\ operation_queue' = QueueDelete(operation_queue, CurrentItem.chat_id)
  /\ balance_cache' = invalidate_balance_cache(balance_cache, CurrentItem.chat_id)
  /\ balance_cache_time' = invalidate_balance_cache(balance_cache_time, CurrentItem.chat_id)
  /\ NextScope([hist EXCEPT !.dropped =
                  IF CurrentItem.chat_id \in DOMAIN balance_cache
                    THEN @ \cup {CurrentItem.chat_id} ELSE @])
  /\ UNCHANGED <<maintenance_mode, clock, update, reply, call, impl, db, now, issues>>

(* queue_operation enters its `async with queue_lock:` *)
QueueOperationLock(chat_id, o) ==
  /\ pc = "sleep"
  /\ queue_lock = ""
  /\ hist.accepted < MaxOps
  /\ queue_lock' = "queue_operation"
  /\ call' = [fn |-> "queue_operation", args |-> <<chat_id, o>>, done |-> FALSE,
              raised |-> FALSE, value |-> 0, decimals |-> 0]
  /\ UNCHANGED <<maintenance_mode, clock, balance_cache_time, update, reply, impl, db, operation_queue, pc, queue_snapshot, op_idx, balance_cache, now, issues, hist>>

(* the append, and the release of the lock *)
QueueOperationAppend ==
  /\ queue_lock = "queue_operation"
  /\ call.fn = "queue_operation" /\ ~call.done
  /\ LET o == call.args[2]
     IN operation_queue' = queue_operation(operation_queue, call.args[1],
           MkOp(o.type, o.currency, o.amount, o.description, hist.accepted + 1))
  /\ hist' = [hist EXCEPT !.accepted = @ + 1]
  /\ queue_lock' = ""
  /\ call' = [call EXCEPT !.done = TRUE]
  /\ UNCHANGED <<maintenance_mode, clock, balance_cache_time, update, reply, impl, db, pc, queue_snapshot, op_idx, balance_cache, now, issues>>

(* --------------------------- admin commands ---------------------------- *)
(* handle_delete_password: the operation is looked up with get_operations, *)
(* deleted, and the chat's cache invalidated on success                    *)
DeleteOperation(chat_id, operation_id) ==
  /\ pc = "sleep"
  /\ db' = delete_operation(db, chat_id, operation_id)
  /\ balance_cache' = IF delete_operation_found(db, chat_id, operation_id)
                        THEN invalidate_balance_cache(balance_cache, chat_id)
                        ELSE balance_cache
  /\ balance_cache_time' = IF delete_operation_found(db, chat_id, operation_id)
                             THEN invalidate_balance_cache(balance_cache_time, chat_id)
                             ELSE balance_cache_time
  /\ UNCHANGED <<queue_lock, maintenance_mode, clock, update, reply, call, impl, operation_queue, pc, queue_snapshot, op_idx, now, issues, hist>>

(* Database.set_maintenance_mode(enabled) of src/app: the attribute is     *)
(* set and a line is logged; nothing in the repository reads it            *)
SetMaintenanceMode(enabled) ==
  /\ impl = "app"
  /\ pc = "sleep"
  /\ maintenance_mode # enabled
  /\ maintenance_mode' = enabled
  /\ UNCHANGED <<queue_lock, clock, balance_cache_time, update, reply, call, impl, db, operation_queue, pc, queue_snapshot, op_idx, balance_cache, now, issues, hist>>

(* cmd_fix_balances: "/fix" for the chat, "/fix all" with chat_id = 0 *)
RecalculateBalances(chat_id) ==
  /\ pc = "sleep"
  /\ db' = recalculate_balances(db, chat_id)
  /\ balance_cache' = IF chat_id = 0 THEN << >>
                      ELSE invalidate_balance_cache(balance_cache, chat_id)
  /\ balance_cache_time' = IF chat_id = 0 THEN << >>
                           ELSE invalidate_balance_cache(balance_cache_time, chat_id)
  /\ UNCHANGED <<queue_lock, maintenance_mode, clock, update, reply, call, impl, operation_queue, pc, queue_snapshot, op_idx, now, issues, hist>>

(* cmd_clear_all *)
ClearAll ==
  /\ pc = "sleep"
  /\ db' = clear_all(db)
  /\ balance_cache' = << >>
  /\ balance_cache_time' = << >>
  /\ UNCHANGED <<queue_lock, maintenance_mode, clock, update, reply, call, impl, operation_queue, pc, queue_snapshot, op_idx, now, issues, hist>>

(* an audit that repairs what it finds by recomputing every balance *)
VerifyIntegrityRepairs ==
  /\ pc = "sleep"
  /\ issues' = verify_financial_integrity(db)
  /\ db' = IF issues' = {} THEN db ELSE recalculate_balances(db, 0)
  /\ UNCHANGED <<queue_lock, maintenance_mode, clock, balance_cache_time, update, reply, call, impl, operation_queue, pc, queue_snapshot, op_idx, balance_cache, now, hist>>

(* cmd_verify_integrity: the report is sent back to the chat *)
VerifyIntegrity ==
  /\ pc = "sleep"
  /\ issues' = verify_financial_integrity(db)
  /\ UNCHANGED <<queue_lock, maintenance_mode, clock, balance_cache_time, update, reply, call, impl, db, operation_queue, pc, queue_snapshot, op_idx, balance_cache, now, hist>>

(* `chat_id in balance_cache` and the entry is younger than CACHE_TTL *)
cache_hit(cache, cache_time, t, chat_id) ==
  /\ chat_id \in DOMAIN cache
  /\ t - (IF chat_id \in DOMAIN cache_time THEN cache_time[chat_id] ELSE 0) < CACHE_TTL

(* dict[chat_id] = value *)
DictPut(f, chat_id, value) ==
  [c \in DOMAIN f \cup {chat_id} |-> IF c = chat_id THEN value ELSE f[c]]

(* get_cached_balance(chat_id): a fresh entry is returned as it is, else   *)
(* the balances are read with db.get_balances, stored with the time of     *)
(* the read, and returned; call holds what was returned                    *)
GetCachedBalance(chat_id) ==
  /\ pc = "sleep"
  /\ hist.reads < MaxReads
  /\ LET hit == cache_hit(balance_cache, balance_cache_time, clock, chat_id)
         balances == IF hit THEN balance_cache[chat_id] ELSE get_balances(db, chat_id)
     IN /\ db' = IF hit THEN db ELSE get_balances_db(db, chat_id)
        /\ balance_cache' = IF hit THEN balance_cache
                            ELSE DictPut(balance_cache, chat_id, balances)
        /\ balance_cache_time' = IF hit THEN balance_cache_time
                                 ELSE DictPut(balance_cache_time, chat_id, clock)
        /\ call' = [fn |-> "get_cached_balance", args |-> <<chat_id>>, done |-> TRUE,
                    raised |-> FALSE, value |-> balances, decimals |-> 0]
  /\ hist' = [hist EXCEPT !.reads = @ + 1]
  /\ UNCHANGED <<queue_lock, maintenance_mode, clock, update, reply, impl, operation_queue, pc, queue_snapshot, op_idx, now, issues>>

(* datetime.now() moves on by seconds seconds *)
ClockAdvance(seconds) ==
  /\ clock + seconds <= MaxClock
  /\ clock' = clock + seconds
  /\ UNCHANGED <<queue_lock, maintenance_mode, balance_cache_time, update, reply, call, impl, db, operation_queue, pc, queue_snapshot, op_idx, balance_cache, now, issues, hist>>

(* the wall clock advances by one window length *)
Tick ==
  /\ now < MaxNow
  /\ now' = now + 1
  /\ UNCHANGED <<queue_lock, maintenance_mode, clock, balance_cache_time, update, reply, call, impl, db, operation_queue, pc, queue_snapshot, op_idx, balance_cache, issues, hist>>

(* ---------------------------- number parsing --------------------------- *)
(* A token is a sequence of one-character strings.                         *)
TokenChars == {"1", ".", ","}

Tokens == UNION {[1..n -> TokenChars] : n \in 0..MaxTokenLen}

DigitChars == <<"0", "1", "2", "3", "4", "5", "6", "7", "8", "9">>

IsDigit(c) == \E d \in 1..10 : DigitChars[d] = c

DigitOf(c) == (CHOOSE d \in 1..10 : DigitChars[d] = c) - 1

(* re.sub(r"\s+", "", s.strip().replace(NBSP, " ")) *)
StripSpaces(s) == SelectSeq(s, LAMBDA c : c \notin {" ", "NBSP"})

(* `c in s` *)
Contains(s, c) == \E i \in 1..Len(s) : s[i] = c

(* s.rfind(c): the last index, counted from 0, or -1 *)
rfind(s, c) ==
  IF Contains(s, c)
    THEN (CHOOSE i \in 1..Len(s) : s[i] = c /\ \A j \in (i + 1)..Len(s) : s[j] # c) - 1
    ELSE -1

(* s.replace(old, new) with new the empty string or one character *)
replace(s, old, new) ==
  IF new = << >>
    THEN SelectSeq(s, LAMBDA c : c # old)
    ELSE [i \in 1..Len(s) |-> IF s[i] = old THEN new[1] ELSE s[i]]

RECURSIVE Split(_, _)
(* the pieces of s between the occurrences of sep *)
Split(s, sep) ==
  IF ~Contains(s, sep) THEN <<s>>
  ELSE LET i == CHOOSE k \in 1..Len(s) : s[k] = sep /\ \A j \in 1..(k - 1) : s[j] # sep
       IN <<SubSeq(s, 1, i - 1)>> \o Split(SubSeq(s, i + 1, Len(s)), sep)

AllDigits(s) == \A i \in 1..Len(s) : IsDigit(s[i])

(* re.fullmatch of \d{1,3}(SEP\d{3}){min_groups,} *)
fullmatch_groups(s, sep, min_groups) ==
  LET pieces == Split(s, sep)
  IN /\ Len(pieces) >= min_groups + 1
     /\ AllDigits(pieces[1]) /\ Len(pieces[1]) \in 1..3
     /\ \A k \in 2..Len(pieces) : AllDigits(pieces[k]) /\ Len(pieces[k]) = 3

RECURSIVE DigitsValue(_)
DigitsValue(s) ==
  IF s = << >> THEN 0
  ELSE DigitsValue(SubSeq(s, 1, Len(s) - 1)) * 10 + DigitOf(s[Len(s)])

RECURSIVE Normalised(_, _)
(* a decimal number mant / 10^decimals without trailing zeros *)
Normalised(mant, decimals) ==
  IF decimals > 0 /\ mant % 10 = 0
    THEN Normalised(mant \div 10, decimals - 1)
    ELSE [raised |-> FALSE, mant |-> mant, decimals |-> decimals]

(* float(s) on digits and dots: ValueError unless s has a digit, at most   *)
(* one dot and nothing else                                                *)
float(s) ==
  LET dots == Len(SelectSeq(s, LAMBDA c : c = "."))
      digits == SelectSeq(s, LAMBDA c : c # ".")
  IN IF dots > 1 \/ digits = << >> \/ ~AllDigits(digits)
       THEN [raised |-> TRUE, mant |-> 0, decimals |-> 0]
       ELSE Normalised(DigitsValue(digits),
                       IF dots = 0 THEN 0 ELSE Len(s) - 1 - rfind(s, "."))

(* src/app/services/parser.py: dots group thousands only with two or more *)
(* groups                                                                  *)
app_parse_human_number(raw) ==
  LET s == StripSpaces(raw)
      has_dot == Contains(s, ".")
      has_comma == Contains(s, ",")
  IN IF has_dot /\ has_comma
       THEN IF rfind(s, ",") > rfind(s, ".")
              THEN float(replace(replace(s, ".", << >>), ",", <<".">>))
              ELSE float(replace(s, ",", << >>))
     ELSE IF has_dot /\ ~has_comma
       THEN IF fullmatch_groups(s, ".", 2)
              THEN float(replace(s, ".", << >>))
              ELSE float(s)
     ELSE IF has_comma /\ ~has_dot
       THEN IF fullmatch_groups(s, ",", 1)
              THEN float(replace(s, ",", << >>))
              ELSE float(replace(s, ",", <<".">>))
     ELSE float(s)

(* src/bot.py: one group is enough for both separators *)
legacy_parse_human_number(raw) ==
  LET s == StripSpaces(raw)
      has_dot == Contains(s, ".")
      has_comma == Contains(s, ",")
  IN IF has_dot /\ has_comma
       THEN IF rfind(s, ",") > rfind(s, ".")
              THEN float(replace(replace(s, ".", << >>), ",", <<".">>))
              ELSE float(replace(s, ",", << >>))
     ELSE IF has_dot /\ ~has_comma
       THEN IF fullmatch_groups(s, ".", 1)
              THEN float(replace(s, ".", << >>))
              ELSE float(s)
     ELSE IF has_comma /\ ~has_dot
       THEN IF fullmatch_groups(s, ",", 1)
              THEN float(replace(s, ",", << >>))
              ELSE float(replace(s, ",", <<".">>))
     ELSE float(s)

parse_human_number(im, s) ==
  IF im = "legacy" THEN legacy_parse_human_number(s) ELSE app_parse_human_number(s)

(* ----------------------------- pure calls ------------------------------ *)
MathCalls ==
  {[fn |-> "compute_conversion_to_amount", args |-> <<a, r, f, t>>, done |-> FALSE,
    raised |-> FALSE, value |-> 0, decimals |-> 0] :
      a \in MathAmounts, r \in MathRates, f \in MathCurrencies, t \in MathCurrencies}

(* compute_conversion_to_amount(amount, rate, from_curr, to_curr) returns  *)
(* or raises                                                               *)
ComputeConversion ==
  /\ call.fn = "compute_conversion_to_amount"
  /\ ~call.done
  /\ LET amount == call.args[1]
         rate == call.args[2]
         from_curr == call.args[3]
         to_curr == call.args[4]
     IN call' = IF compute_conversion_to_amount_raises(amount, rate, from_curr, to_curr)
                  THEN [call EXCEPT !.done = TRUE, !.raised = TRUE]
                  ELSE [call EXCEPT !.done = TRUE,
                          !.value = compute_conversion_to_amount(amount, rate, from_curr, to_curr)]
  /\ UNCHANGED <<queue_lock, maintenance_mode, clock, balance_cache_time, update, reply, impl, db, operation_queue, pc, queue_snapshot, op_idx, balance_cache, now, issues, hist>>

InitMath == InitProgram /\ call \in MathCalls

NextMath == ComputeConversion

SpecMath == InitMath /\ [][NextMath]_vars

ParserCalls ==
  {[fn |-> "parse_human_number", args |-> <<t>>, done |-> FALSE,
    raised |-> FALSE, value |-> 0, decimals |-> 0] : t \in Tokens}

(* parse_human_number(s) returns a float (value / 10^decimals) or raises   *)
(* ValueError                                                              *)
ParseHumanNumber ==
  /\ call.fn = "parse_human_number"
  /\ ~call.done
  /\ LET r == parse_human_number(impl, call.args[1])
     IN call' = [call EXCEPT !.done = TRUE, !.raised = r.raised,
                             !.value = r.mant, !.decimals = r.decimals]
  /\ UNCHANGED <<queue_lock, maintenance_mode, clock, balance_cache_time, update, reply, impl, db, operation_queue, pc, queue_snapshot, op_idx, balance_cache, now, issues, hist>>

InitParser == InitProgram /\ call \in ParserCalls

NextParser == ParseHumanNumber

SpecParser == InitParser /\ [][NextParser]_vars

Flush ==
  \/ FlushSnapshot
  \/ FlushAddOperation
  \/ FlushAddOperationFails
  \/ FlushScopeDone

(* the whole program *)
Next ==
  \/ \E c \in Chats, o \in OpInputs : QueueOperation(c, o)
  \/ \E c \in Chats, i \in IncomeInputs : HandleTextIncome(c, i)
  \/ \E c \in Chats, m \in ManualConversions : HandleTextConversion(c, m)
  \/ \E c \in HandlerChats : Start(c)
  \/ \E m \in Messages : HandleText(m)
  \/ FlushSnapshot
  \/ FlushAddOperation
  \/ FlushAddOperationFails
  \/ FlushScopeDone
  \/ \E c \in Chats, i \in 1..(db.seq + 1) : DeleteOperation(c, i)
  \/ \E c \in Chats \cup {0} : RecalculateBalances(c)
  \/ ClearAll
  \/ VerifyIntegrity
  \/ \E enabled \in BOOLEAN : SetMaintenanceMode(enabled)
  \/ \E c \in Chats : GetCachedBalance(c)
  \/ \E seconds \in ClockSteps : ClockAdvance(seconds)
  \/ Tick

Spec == Init /\ [][Next]_vars

(* producers and the flush task only *)
NextWriter ==
  \/ \E c \in Chats, o \in WriterInputs : QueueOperation(c, o)
  \/ \E c \in Chats, i \in IncomeInputs : HandleTextIncome(c, i)
  \/ \E c \in Chats, m \in ManualConversions : HandleTextConversion(c, m)
  \/ FlushSnapshot
  \/ FlushAddOperation
  \/ FlushAddOperationFails
  \/ FlushScopeDone

SpecWriter == Init /\ [][NextWriter]_vars

(* the store: commits through the flush task (every add_operation        *)
(* returning), delete and recalculate                                     *)
NextStore ==
  \/ \E c \in Chats, o \in StoreInputs : QueueOperation(c, o)
  \/ FlushSnapshot
  \/ FlushAddOperation
  \/ FlushScopeDone
  \/ \E c \in Chats, i \in 1..(db.seq + 1) : DeleteOperation(c, i)
  \/ \E c \in Chats \cup {0} : RecalculateBalances(c)

SpecStore == Init /\ [][NextStore]_vars

(* the store (every add_operation returning) with recalculate, the bulk   *)
(* clear and the audit                                                     *)
NextAudit ==
  \/ \E c \in AuditChats, o \in AuditInputs : QueueOperation(c, o)
  \/ FlushSnapshot
  \/ FlushAddOperation
  \/ FlushScopeDone
  \/ \E c \in AuditChats \cup {0} : RecalculateBalances(c)
  \/ ClearAll
  \/ VerifyIntegrity

SpecAudit == Init /\ [][NextAudit]_vars

(* handle_text of src/app with the /start command and the flush task      *)
InitApp == Init /\ impl = "app"

NextHandler ==
  \/ \E c \in HandlerChats : Start(c)
  \/ \E m \in Messages : HandleText(m)
  \/ FlushSnapshot
  \/ FlushAddOperation
  \/ FlushScopeDone

SpecHandler == InitApp /\ [][NextHandler]_vars

(* producers and a flush task that is always scheduled again and whose    *)
(* add_operation calls all return                                          *)
LiveInputs ==
  { [type |-> "Income",         currency |-> "USD", amount |-> 10,  description |-> "d"],
    [type |-> "CashWithdrawal", currency |-> "USD", amount |-> -20, description |-> "d"] }

NextLive ==
  \/ \E c \in Chats, o \in LiveInputs : QueueOperation(c, o)
  \/ FlushSnapshot
  \/ FlushAddOperation
  \/ FlushScopeDone

SpecLive ==
  /\ Init /\ [][NextLive]_vars
  /\ WF_vars(FlushSnapshot)
  /\ WF_vars(FlushAddOperation)
  /\ WF_vars(FlushScopeDone)

(* producers, cached reads and a flush task whose add_operation may raise *)
IsolationInputs ==
  { [type |-> "Income", currency |-> "USD", amount |-> 10, description |-> "d"] }

NextIsolation ==
  \/ \E c \in Chats, o \in IsolationInputs : QueueOperation(c, o)
  \/ \E c \in Chats : GetCachedBalance(c)
  \/ FlushSnapshot
  \/ FlushAddOperation
  \/ FlushAddOperationFails
  \/ FlushScopeDone

SpecIsolation == Init /\ [][NextIsolation]_vars

(* src/app with the maintenance switch: producers, the switch and the     *)
(* flush task                                                              *)
NextMaintenance ==
  \/ \E c \in Chats, o \in WriterInputs : QueueOperation(c, o)
  \/ \E enabled \in BOOLEAN : SetMaintenanceMode(enabled)
  \/ FlushSnapshot
  \/ FlushAddOperation
  \/ FlushScopeDone

SpecMaintenance == InitApp /\ [][NextMaintenance]_vars

(* handle_text of src/app on texts that match several of its stages *)
NextStages ==
  \/ \E c \in HandlerChats : Start(c)
  \/ \E m \in StageMessages : HandleText(m)
  \/ FlushSnapshot
  \/ FlushAddOperation
  \/ FlushScopeDone

SpecStages == InitApp /\ [][NextStages]_vars

(* the balance cache in front of the store: producers, the flush task     *)
(* (every add_operation returning), cached reads and the clock             *)
CacheInputs ==
  { [type |-> "Income", currency |-> "USD", amount |-> 10, description |-> "d"] }

NextCache ==
  \/ \E c \in Chats, o \in CacheInputs : QueueOperation(c, o)
  \/ FlushSnapshot
  \/ FlushAddOperation
  \/ FlushScopeDone
  \/ \E c \in Chats : GetCachedBalance(c)
  \/ \E seconds \in ClockSteps : ClockAdvance(seconds)

SpecCache == Init /\ [][NextCache]_vars

(* the flush task and queue_operation with their lock blocks *)
NextLock ==
  \/ \E c \in Chats, o \in LockInputs : QueueOperationLock(c, o)
  \/ QueueOperationAppend
  \/ FlushLockSnapshot
  \/ FlushTakeSnapshot
  \/ FlushAddOperation
  \/ FlushAddOperationFails
  \/ FlushLockDelete
  \/ FlushDelete

SpecLock == Init /\ [][NextLock]_vars

(* ------------------------------ properties ---------------------------- *)
FlushIdle == pc = "sleep"

FullyFlushed == FlushIdle /\ operation_queue = << >> /\ ~hist.commit_failed

BalanceMatchesLedger(d, chat_id, currency) ==
  get_balance(d, chat_id, currency) = SumOf(d, chat_id, currency)

(* C1: whenever a flush cycle has ended with the pending queue empty and  *)
(* no commit has failed, the stored balance of every (scope, currency)    *)
(* equals the sum of the signed amounts of that scope's ledger entries in *)
(* that currency.                                                          *)
C1_BalanceEqualsLedgerSum ==
  FullyFlushed =>
    \A c \in Chats, cur \in AllCurrencies : BalanceMatchesLedger(db, c, cur)

(* two operations of one scope and one currency were committed by the     *)
(* flush task and the queue is drained                                     *)
C1_Witness ==
  /\ FullyFlushed
  /\ \E c \in Chats, cur \in AllCurrencies :
        /\ Cardinality(EntriesOf(db, c, cur)) >= 2
        /\ get_balance(db, c, cur) # 0

(* two submissions of one income, both taken by queue_operation, inside   *)
(* one window                                                              *)
SameIncome(a, b) ==
  /\ a.n # b.n
  /\ a.queued /\ b.queued
  /\ a.chat_id = b.chat_id /\ a.amount = b.amount
  /\ a.currency = b.currency /\ a.description = b.description
  /\ Abs(a.at - b.at) <= TIME_WINDOW

IncomeEntries(i) ==
  {e \in db.operations :
      /\ e.operation_type = "Income" /\ e.chat_id = i.chat_id
      /\ e.amount = i.amount /\ e.currency = i.currency
      /\ e.description = i.description}

(* C3 (as claimed): the same auto-detected income submitted twice inside  *)
(* the window leaves exactly one ledger entry once everything is flushed. *)
C3_DuplicateIncomeOneEntry ==
  FullyFlushed =>
    \A a, b \in hist.incomes : SameIncome(a, b) => Cardinality(IncomeEntries(a)) = 1

(* C4 (as claimed): when an add_operation of a scope's snapshot fails,    *)
(* none of that snapshot's operations is in the ledger and no balance of  *)
(* that scope differs from its value at the start of the cycle.           *)
SnapshotUids(item) == {item.ops[k].uid : k \in 1..Len(item.ops)}

C4_BatchAllOrNothing ==
  [][FlushAddOperationFails =>
       /\ \A e \in db'.operations :
            e.chat_id = CurrentItem.chat_id /\ e.uid \in SnapshotUids(CurrentItem)
              => e \in hist.snap_db.operations
       /\ \A cur \in AllCurrencies :
            get_balance(db', CurrentItem.chat_id, cur)
              = get_balance(hist.snap_db, CurrentItem.chat_id, cur)]_vars

(* C5 (as claimed): whenever no flush is in progress the ledger holds     *)
(* both legs of a submitted conversion or neither.                        *)
Committed(uid) == \E e \in db.operations : e.uid = uid

C5_ConversionLegsTogether ==
  FlushIdle => \A p \in hist.pairs : Committed(p[1]) <=> Committed(p[2])

(* C2 (as claimed): recalculate_balances leaves the stored balance of     *)
(* every currency that has entries in a recalculated scope as it was just *)
(* before the call, also for currencies outside CURRENCIES.               *)
RecalculatedScopes(c) == IF c = 0 THEN {e.chat_id : e \in db.operations} ELSE {c}

C2_RecalculateKeepsBalances ==
  [][\A c \in Chats \cup {0} :
       RecalculateBalances(c) =>
         \A s \in RecalculatedScopes(c), cur \in AllCurrencies :
            EntriesOf(db, s, cur) # {} =>
               get_balance(db', s, cur) = get_balance(db, s, cur)]_vars

DeletedRow(chat_id, operation_id) ==
  CHOOSE e \in db.operations : e.id = operation_id /\ e.chat_id = chat_id

(* C6: delete_operation on an existing entry of the scope removes exactly *)
(* that entry and lowers the stored balance of its (scope, currency) by   *)
(* its signed amount; balance = sum of entries is kept if it held; no     *)
(* other entry, balance or balance row changes.                            *)
C6_DeleteRollsBack ==
  [][\A c \in Chats, i \in 1..(db.seq + 1) :
       (DeleteOperation(c, i) /\ delete_operation_found(db, c, i)) =>
         LET row == DeletedRow(c, i)
         IN /\ db'.operations = db.operations \ {row}
            /\ get_balance(db', c, row.currency)
                 = get_balance(db, c, row.currency) - row.amount
            /\ \A b \in Chats, cur \in AllCurrencies :
                 <<b, cur>> # <<c, row.currency>> =>
                    get_balance(db', b, cur) = get_balance(db, b, cur)
            /\ DOMAIN db'.balances = DOMAIN db.balances
            /\ (BalanceMatchesLedger(db, c, row.currency)
                  => BalanceMatchesLedger(db', c, row.currency))]_vars

(* an entry was deleted (its id is missing below the sequence value)      *)
(* while other entries remain                                              *)
C6_Witness ==
  /\ db.operations # {}
  /\ \E i \in 1..db.seq : \A e \in db.operations : e.id # i
  /\ \E c \in Chats, cur \in AllCurrencies : get_balance(db, c, cur) # 0

(* C7: delete_operation with an id that has no entry in the scope, also   *)
(* when the id is an entry of another scope, reports failure and leaves   *)
(* every entry and every balance as it was.                               *)
C7_DeleteMissingIsNoOp ==
  [][\A c \in Chats, i \in 1..(db.seq + 1) :
       (DeleteOperation(c, i) /\ ~(\E e \in db.operations : e.id = i /\ e.chat_id = c)) =>
         /\ db' = db
         /\ ~delete_operation_found(db, c, i)]_vars

(* an entry of one scope exists whose id can be passed with another scope *)
C7_Witness ==
  /\ FlushIdle
  /\ \E e \in db.operations, c \in Chats : c # e.chat_id

ScopeView(d, b) ==
  [operations |-> {e \in d.operations : e.chat_id = b},
   balances |-> [k \in {x \in DOMAIN d.balances : x[1] = b} |-> d.balances[k]],
   get_balance |-> [cur \in AllCurrencies |-> get_balance(d, b, cur)],
   get_operations |-> get_operations(d, b, 20, "")]

OthersUntouched(a) == \A b \in Chats \ {a} : ScopeView(db', b) = ScopeView(db, b)

(* C8: add_operation during the flush of scope A's batch, delete_operation *)
(* on scope A and recalculate_balances(A) leave the entries, the balance   *)
(* rows and the results of get_balance and get_operations of every other   *)
(* scope unchanged.                                                        *)
C8_ScopesIndependent ==
  [][/\ FlushAddOperation => OthersUntouched(CurrentItem.chat_id)
     /\ \A c \in Chats, i \in 1..(db.seq + 1) : DeleteOperation(c, i) => OthersUntouched(c)
     /\ \A c \in Chats : RecalculateBalances(c) => OthersUntouched(c)]_vars

(* both scopes hold entries and a nonzero balance *)
C8_Witness ==
  \A c \in Chats :
     /\ \E e \in db.operations : e.chat_id = c
     /\ \E cur \in AllCurrencies : get_balance(db, c, cur) # 0

SignIssueIds(d) ==
  {x.id : x \in {y \in verify_financial_integrity(d) :
                    y.kind \in {"PositiveExpense", "NegativeIncome"}}}

(* C9 (as claimed): the sign check reports exactly the entries of kind    *)
(* cash withdrawal, PP payment, commission or bank-fee request with a     *)
(* strictly positive amount and the entries of kind income, cash deposit  *)
(* or PP refund with a strictly negative amount.                          *)
C9_SignCheckCoversAllKinds ==
  \A e \in db.operations :
     e.id \in SignIssueIds(db) <=>
        \/ /\ e.operation_type \in {"CashWithdrawal", "PPPayment", "Commission",
                                    "Commission1", "BankRequest"}
           /\ e.amount > 0
        \/ /\ e.operation_type \in {"Income", "CashDeposit", "PPRefund"}
           /\ e.amount < 0

DriftIn(report, c, cur) ==
  \E x \in report :
     x.kind = "BalanceDrift" /\ x.chat_id = c /\ x.currency = cur

DriftReported(d, c, cur) == DriftIn(verify_financial_integrity(d), c, cur)

HasRowOrEntry(d, c, cur) ==
  <<c, cur>> \in DOMAIN d.balances \/ EntriesOf(d, c, cur) # {}

(* C10 (as claimed): a BalanceDrift issue is returned for a (scope,       *)
(* currency) exactly when |stored balance - sum of entries| exceeds 0.01, *)
(* over every pair with a balance row or an entry.                        *)
C10_DriftAboveOneCent ==
  LET report == verify_financial_integrity(db)
  IN \A c \in Chats, cur \in AllCurrencies :
     DriftIn(report, c, cur) <=>
        /\ HasRowOrEntry(db, c, cur)
        /\ Abs(get_balance(db, c, cur) - SumOf(db, c, cur)) > 10

(* C10 (amended): a BalanceDrift issue is returned for a (scope,          *)
(* currency) exactly when |stored balance - sum of entries| exceeds       *)
(* 0.009, over every pair with a balance row or an entry (a missing side  *)
(* counting as 0).                                                         *)
C10_DriftAboveThreshold ==
  LET report == verify_financial_integrity(db)
  IN \A c \in Chats, cur \in AllCurrencies :
     DriftIn(report, c, cur) <=>
        /\ HasRowOrEntry(db, c, cur)
        /\ Abs(get_balance(db, c, cur) - SumOf(db, c, cur)) > 9

(* the audit has run and reported a pair whose drift is exactly 0.01,     *)
(* while a pair with a smaller nonzero drift is in the store unreported   *)
C10_Witness ==
  /\ \E x \in issues :
        /\ x.kind = "BalanceDrift"
        /\ Abs(get_balance(db, x.chat_id, x.currency)
                 - SumOf(db, x.chat_id, x.currency)) = 10
        /\ DriftReported(db, x.chat_id, x.currency)
  /\ \E c \in Chats, cur \in AllCurrencies :
        /\ Abs(get_balance(db, c, cur) - SumOf(db, c, cur)) \in 1..9
        /\ ~DriftReported(db, c, cur)

(* C11: the audit is read-only: the ledger entries, the stored balances,  *)
(* the registered chats and the pending queue (with the snapshot of the    *)
(* flush task and the balance cache) are the same after                    *)
(* verify_financial_integrity as before it, whether or not it reports      *)
(* issues.                                                                 *)
C11_AuditReadOnly ==
  [][VerifyIntegrity =>
       /\ db'.operations = db.operations
       /\ db'.balances = db.balances
       /\ db'.chats = db.chats
       /\ db' = db
       /\ operation_queue' = operation_queue
       /\ queue_snapshot' = queue_snapshot
       /\ balance_cache' = balance_cache]_vars

(* the audit has run on a store with entries, found issues, and the drift  *)
(* it reported is still there                                              *)
C11_Witness ==
  /\ issues # {}
  /\ db.operations # {}
  /\ \E x \in issues : x.kind = "BalanceDrift" /\ DriftReported(db, x.chat_id, x.currency)

(* C12: for rate > 0 compute_conversion_to_amount returns amount / rate   *)
(* exactly when the source is one of RUB, KGS, KZT, CNY and the            *)
(* destination one of USD, USDT, EUR, AED, and amount * rate for every     *)
(* other pair, codes outside both sets included.                           *)
C12_DivideOnlyWeakToStrong ==
  (call.fn = "compute_conversion_to_amount" /\ call.done /\ call.args[2] > 0) =>
    LET amount == call.args[1]
        rate == call.args[2]
        from_curr == call.args[3]
        to_curr == call.args[4]
    IN /\ ~call.raised
       /\ IF from_curr \in {"RUB", "KGS", "KZT", "CNY"}
               /\ to_curr \in {"USD", "USDT", "EUR", "AED"}
            THEN call.value * rate = amount
            ELSE call.value = amount * rate

(* a weak -> strong call has returned a quotient that differs from the     *)
(* product                                                                 *)
C12_Witness ==
  /\ call.fn = "compute_conversion_to_amount" /\ call.done /\ ~call.raised
  /\ call.args[2] > 1 /\ call.args[1] > 0
  /\ call.args[3] \in weak /\ call.args[4] \in strong
  /\ call.value * call.args[2] = call.args[1]
  /\ call.value # call.args[1] * call.args[2]

(* the step is a call of handle_text; the update it handled is update'     *)
(* (hist.handled counts the calls, and HandleText(m) sets update' = m)     *)
HandleTextStep == hist'.handled = hist.handled + 1

(* the last n operations pending for a scope *)
LastOps(q, chat_id, n) ==
  LET ops == QueueOps(q, chat_id)
  IN SubSeq(ops, Len(ops) - n + 1, Len(ops))

(* handle_text appended exactly the n operations `legs` (currency and      *)
(* signed amount of each) to the scope t and nothing to any other scope    *)
AppendedExactly(t, legs) ==
  /\ Len(QueueOps(operation_queue', t)) = Len(QueueOps(operation_queue, t)) + Len(legs)
  /\ SubSeq(QueueOps(operation_queue', t), 1, Len(QueueOps(operation_queue, t)))
        = QueueOps(operation_queue, t)
  /\ \A k \in 1..Len(legs) :
        LET op == QueueOps(operation_queue', t)[Len(QueueOps(operation_queue, t)) + k]
        IN op.currency = legs[k][1] /\ op.amount = legs[k][2]
  /\ \A c \in HandlerChats \ {t} :
        QueueOps(operation_queue', c) = QueueOps(operation_queue, c)

(* the update is a manual line of a team member that reaches the manual    *)
(* operations of handle_text                                               *)
StaffManual(m) ==
  /\ m.user_id \in TEAM_MEMBER_IDS
  /\ ~m.looks_like_bank_income
  /\ m.bulk = << >>
  /\ m.manual.parsed

(* the scope a manual line is aimed at: the chat itself in a group, the    *)
(* chat named by the tag in a private chat (0 when there is none)          *)
AimedScope(d, m) ==
  IF ~m.is_private THEN m.chat_id
  ELSE IF m.internal_report THEN 0
  ELSE get_chat_id_by_name(d, normalize_group_name(m.group_tag))

IsFix(m) == m.manual.type = "Conversion" /\ m.manual.description = "Fix"

(* C13: a fix conversion 'fix A C1 R C2' with R > 0 and a resolved target  *)
(* scope enqueues exactly two entries to that scope, +A in C1 and then     *)
(* -(A * R) in C2, whatever the classes of C1 and C2.                      *)
C13_FixLegs ==
  [][(HandleTextStep /\ StaffManual(update') /\ IsFix(update')
        /\ update'.manual.rate > 0 /\ AimedScope(db', update') # 0) =>
       AppendedExactly(AimedScope(db', update'),
          << <<update'.manual.currency, update'.manual.amount>>,
             <<update'.manual.to_currency,
               -(update'.manual.amount * update'.manual.rate)>> >>)]_vars

(* a fix from a weak to a strong currency was handled and its two legs,    *)
(* the second one the product and not the quotient, are pending            *)
C13_Witness ==
  /\ StaffManual(update) /\ IsFix(update)
  /\ update.manual.currency \in weak /\ update.manual.to_currency \in strong
  /\ update.manual.rate > 1
  /\ \E c \in HandlerChats :
        /\ Len(QueueOps(operation_queue, c)) >= 2
        /\ LET legs == LastOps(operation_queue, c, 2)
           IN /\ legs[1].currency = update.manual.currency
              /\ legs[1].amount = update.manual.amount
              /\ legs[2].currency = update.manual.to_currency
              /\ legs[2].amount = -(update.manual.amount * update.manual.rate)

IsConversionType(m) == m.manual.type \in {"Conversion", "ManualBuyFX"}

(* C14 (as claimed): a conversion-type line (fix, generic, or the          *)
(* [internal_report] buy-FX exchange) with rate <= 0 that handle_text      *)
(* takes as a manual operation adds nothing to the pending queue.          *)
C14_NonPositiveRateRejected ==
  [][(HandleTextStep /\ StaffManual(update') /\ IsConversionType(update')
        /\ update'.manual.rate <= 0) =>
       operation_queue' = operation_queue]_vars

(* the update is taken as an auto-detected income *)
AutoIncome(m) == m.looks_like_bank_income /\ m.income.parsed

(* the text carries a [GROUP] tag that names a registered chat *)
TagResolves(d, m) ==
  /\ ~m.internal_report
  /\ m.group_tag # NoGroup
  /\ get_chat_id_by_name(d, normalize_group_name(m.group_tag)) # 0

(* the update comes from a private chat other than the reporting chat and  *)
(* has no tag that resolves                                                *)
PrivateUnscoped(d, m) ==
  m.is_private /\ m.chat_id # REPORT_CHAT_ID /\ ~TagResolves(d, m)

Corrected == reply' \in {"NeedGroup", "GroupNotFound"} /\ operation_queue' = operation_queue

(* the [internal_report] commands: buy FX and cash out *)
IsInternalReport(m) ==
  \/ m.manual.type = "ManualBuyFX"
  \/ m.manual.type = "CashWithdrawal"
       /\ m.manual.description = "CashWithdrawal (internal_report)"

(* C15 (as claimed): in a private chat that is not the reporting chat, an  *)
(* auto-detected income or any manual operation without a tag that         *)
(* resolves creates no pending operation and gets a corrective reply.      *)
C15_ScopeRequiredEveryManual ==
  [][(HandleTextStep /\ PrivateUnscoped(db', update')
        /\ (AutoIncome(update') \/ StaffManual(update'))) => Corrected]_vars

(* C15 (amended): the same for an auto-detected income and for every       *)
(* manual operation other than an [internal_report] command sent without   *)
(* a tag; such a command is enqueued to the private chat's own scope and   *)
(* confirmed.                                                              *)
C15_ScopeRequired ==
  [][(HandleTextStep /\ PrivateUnscoped(db', update')) =>
       /\ AutoIncome(update') => Corrected
       /\ (StaffManual(update')
             /\ ~(IsInternalReport(update') /\ update'.group_tag = NoGroup)) => Corrected
       /\ (StaffManual(update') /\ IsInternalReport(update')
             /\ update'.group_tag = NoGroup) =>
            /\ reply' \in {"BuyFX", "CashOut"}
            /\ QueueOps(operation_queue', update'.chat_id)
                  # QueueOps(operation_queue, update'.chat_id)
            /\ \A c \in HandlerChats \ {update'.chat_id} :
                  QueueOps(operation_queue', c) = QueueOps(operation_queue, c)]_vars

(* a manual line that is no [internal_report] command was sent by a team   *)
(* member in a private chat without a tag and was answered with the hint,  *)
(* nothing being pending                                                   *)
C15_Witness ==
  /\ StaffManual(update) /\ ~IsInternalReport(update)
  /\ PrivateUnscoped(db, update) /\ update.group_tag = NoGroup
  /\ reply = "NeedGroup"
  /\ operation_queue = << >>

(* C16 (as claimed): an auto-detected income from the reporting chat is    *)
(* enqueued to the reporting chat's scope, private or not and whatever     *)
(* the tag; one from any other non-private chat to that chat's scope.      *)
C16_IncomeTarget ==
  [][(HandleTextStep /\ AutoIncome(update')
        /\ (update'.chat_id = REPORT_CHAT_ID \/ ~update'.is_private)) =>
       AppendedExactly(update'.chat_id,
          << <<update'.income.currency, update'.income.amount>> >>)]_vars

(* the operations of the queue that the step appended *)
NewOps ==
  {op \in UNION {{QueueOps(operation_queue', c)[k] :
                     k \in 1..Len(QueueOps(operation_queue', c))} : c \in HandlerChats} :
      op.uid > hist.accepted}

(* C17: for an update whose sender is no team member, every operation      *)
(* handle_text enqueues is an Income found by the bank-notification        *)
(* detector; no bulk payment, conversion, cash, refund or commission       *)
(* operation is enqueued.                                                  *)
C17_NonStaffOnlyIncome ==
  [][(HandleTextStep /\ update'.user_id \notin TEAM_MEMBER_IDS) =>
       /\ \A op \in NewOps : op.type = "Income" /\ AutoIncome(update')
       /\ ~AutoIncome(update') => operation_queue' = operation_queue]_vars

(* a manual line or a bulk list of a sender who is no team member was      *)
(* handled, in a group chat, and nothing is pending                        *)
C17_Witness ==
  /\ hist.handled > 0
  /\ update.user_id \notin TEAM_MEMBER_IDS
  /\ ~update.is_private
  /\ ~update.looks_like_bank_income
  /\ (update.manual.parsed \/ update.bulk # << >>)
  /\ operation_queue = << >>
  /\ reply = ""

(* C18 (as claimed): once the queue is drained, every auto-detected income *)
(* that handle_text passed to queue_operation has a ledger entry carrying  *)
(* the date of the original message (the forward-origin date of a          *)
(* forward, else the message date).                                        *)
C18_IncomeKeepsMessageDate ==
  FullyFlushed =>
    \A i \in hist.incomes : \E e \in IncomeEntries(i) : e.timestamp = i.at

(* the ledger entries committed for the operation that queue_operation     *)
(* accepted as number uid                                                  *)
CommittedFor(uid) == {e \in db.operations : e.uid = uid}

(* C20 (as claimed): when no commit has failed and a flush cycle has ended *)
(* with the pending queue empty, every operation accepted by               *)
(* queue_operation, whenever it was accepted between the cycles, has been  *)
(* committed exactly once.                                                 *)
C20_NothingLostOrDuplicated ==
  FullyFlushed => \A uid \in 1..hist.accepted : Cardinality(CommittedFor(uid)) = 1

(* the token holds one kind of separator only *)
OneSeparatorKind(s) == Contains(s, ".") # Contains(s, ",")

SeparatorOf(s) == IF Contains(s, ".") THEN "." ELSE ","

(* the rule of the claim: 1-3 leading digits and one or more complete      *)
(* 3-digit groups read as thousands grouping, anything else as a decimal   *)
(* mark                                                                    *)
SingleSeparatorRule(s) ==
  IF fullmatch_groups(s, SeparatorOf(s), 1)
    THEN float(replace(s, SeparatorOf(s), << >>))
    ELSE float(replace(s, SeparatorOf(s), <<".">>))

(* C19 (as claimed): for a token with exactly one kind of separator,       *)
(* parse_human_number returns what the single-separator rule gives, the    *)
(* same for '.' and ',': thousands grouping with one or more complete      *)
(* 3-digit groups after 1-3 leading digits, a decimal mark otherwise.      *)
C19_SingleSeparatorRule ==
  (call.fn = "parse_human_number" /\ call.done /\ OneSeparatorKind(call.args[1])) =>
     LET r == SingleSeparatorRule(call.args[1])
     IN call.raised = r.raised /\ call.value = r.mant /\ call.decimals = r.decimals

(* db.add_operation is executing or about to be called for the next op *)
AddOperationRunning == pc = "commit" /\ op_idx <= Len(CurrentItem.ops)

ScopeDoneStep ==
  /\ pc = "commit" /\ op_idx > Len(CurrentItem.ops)
  /\ queue_snapshot' # queue_snapshot

(* a call of get_cached_balance returns *)
CachedReadStep == hist'.reads = hist.reads + 1

CommitFailsStep == hist'.failures = hist.failures + 1

(* C23 (as claimed): when the commit of a chat's batch fails, the chat's   *)
(* operations are not pending any more once the flush task has left the    *)
(* batch, so that no later cycle submits them again.                       *)
C23_FailedBatchNotRequeued ==
  [][CommitFailsStep => CurrentItem.chat_id \notin QueueKeys(operation_queue')]_vars

(* the stage of handle_text an appended operation comes from *)
FromDetector(op, m) ==
  m.income.parsed /\ op.type = "Income" /\ op.description = m.income.description

FromBulk(op, m) ==
  /\ op.type = "PPPayment"
  /\ \E k \in 1..Len(m.bulk) :
        op.description = m.bulk[k].description /\ op.amount = -m.bulk[k].amount

FromManual(op, m) == m.manual.parsed /\ op.description = m.manual.description

StagesOf(m) ==
  {st \in {"income", "bulk", "manual"} :
     \E op \in NewOps :
        \/ st = "income" /\ FromDetector(op, m)
        \/ st = "bulk" /\ FromBulk(op, m)
        \/ st = "manual" /\ FromManual(op, m)}

ManualReplies == {"BuyFX", "CashOut", "RateMustBePositive"}

(* C24: handle_text takes its stages in the order detector, bulk list,     *)
(* manual rules, and the first that matches decides: when the detector     *)
(* fires no bulk or manual operation is made (also when the income is not  *)
(* parsed), when a staff member's text parses as a non-empty bulk list no  *)
(* manual rule is applied, and the operations of one update come from at   *)
(* most one stage.                                                         *)
C24_FirstStageWins ==
  [][HandleTextStep =>
       /\ update'.looks_like_bank_income =>
             /\ \A op \in NewOps : FromDetector(op, update')
             /\ reply' \notin ManualReplies \cup {"BulkDone"}
       /\ (~update'.looks_like_bank_income /\ update'.user_id \in TEAM_MEMBER_IDS
              /\ update'.bulk # << >>) =>
             /\ \A op \in NewOps : FromBulk(op, update')
             /\ reply' = "BulkDone"
       /\ Cardinality(StagesOf(update')) <= 1]_vars

(* a team member's text in a group on which the detector fired, that held  *)
(* no income and would have matched a manual rule, was handled and         *)
(* nothing is pending                                                      *)
C24_Witness ==
  /\ hist.handled > 0
  /\ update.user_id \in TEAM_MEMBER_IDS /\ ~update.is_private
  /\ update.looks_like_bank_income /\ ~update.income.parsed
  /\ update.manual.parsed
  /\ operation_queue = << >>
  /\ reply = ""

PendingOps ==
  UNION {{QueueOps(operation_queue, c)[k] : k \in 1..Len(QueueOps(operation_queue, c))} :
           c \in HandlerChats}

(* C30: every operation handle_text has enqueued, and every ledger entry   *)
(* made from one, passes the sign check of the audit: cash withdrawal, PP  *)
(* payment and commission have an amount <= 0, income and cash deposit an  *)
(* amount >= 0.                                                            *)
C30_SignsPassAudit ==
  /\ \A op \in PendingOps :
        /\ op.type \in expense_types => op.amount <= 0
        /\ op.type \in income_types => op.amount >= 0
  /\ \A e \in db.operations :
        /\ e.operation_type \in expense_types => e.amount <= 0
        /\ e.operation_type \in income_types => e.amount >= 0

(* a "vydacha" line of a team member is pending as a cash withdrawal with  *)
(* a negative amount                                                       *)
C30_Witness ==
  /\ hist.handled > 0
  /\ update.manual.parsed /\ update.manual.type = "CashWithdrawal"
  /\ update.manual.description = "Vydacha" /\ update.manual.amount > 0
  /\ \E op \in PendingOps :
        op.type = "CashWithdrawal" /\ op.amount = -update.manual.amount

(* q1 holds every operation q holds *)
StillPending(q, q1) ==
  \A c \in QueueKeys(q) :
     /\ Len(QueueOps(q1, c)) >= Len(QueueOps(q, c))
     /\ SubSeq(QueueOps(q1, c), 1, Len(QueueOps(q, c))) = QueueOps(q, c)

(* C25 (as claimed): in a step taken while maintenance mode is enabled     *)
(* the flush task adds no ledger entry and changes no balance, and the     *)
(* operations that are pending stay pending.                               *)
C25_MaintenancePausesFlush ==
  [][(maintenance_mode /\ maintenance_mode') =>
       /\ db'.operations = db.operations
       /\ db'.balances = db.balances
       /\ StillPending(operation_queue, operation_queue')]_vars

(* the operation accepted as number uid is in the ledger and the stored    *)
(* balance of its chat and currency is the sum of the entries              *)
CommittedWithBalance(uid) ==
  \E e \in db.operations :
     e.uid = uid /\ BalanceMatchesLedger(db, e.chat_id, e.currency)

(* C26 (as claimed): with the flush task always scheduled again and every  *)
(* add_operation returning, each operation accepted by queue_operation is  *)
(* eventually in the ledger with the balance of its chat and currency      *)
(* equal to the sum of the entries, and the pending queue is eventually    *)
(* empty for good.                                                         *)
C26_EventuallyCommitted ==
  /\ \A uid \in 1..MaxOps : (hist.accepted >= uid) ~> CommittedWithBalance(uid)
  /\ <>[](operation_queue = << >>)

(* C27 (as claimed): right after clear_all the stored balance of every    *)
(* (scope, currency) is 0, the sum of the entries that remain, and the     *)
(* audit finds no BalanceDrift.                                            *)
C27_ClearAllKeepsInvariant ==
  [][ClearAll =>
       /\ \A c \in Chats, cur \in AllCurrencies :
             get_balance(db', c, cur) = 0 /\ BalanceMatchesLedger(db', c, cur)
       /\ \A x \in verify_financial_integrity(db') : x.kind # "BalanceDrift"]_vars

(* the step that ends a flush cycle *)
CycleEndStep == pc = "commit" /\ pc' = "sleep"

OpsReturned(h, d, item) ==
  \A k \in 1..Len(item.ops) :
     /\ item.ops[k].uid \in h.returned
     /\ impl = "legacy" => \E e \in d.operations : e.uid = item.ops[k].uid

C29_AtMostOnce ==
  /\ \A uid \in 1..hist.accepted : Cardinality(CommittedFor(uid)) <= 1
  /\ \A c \in Chats, cur \in AllCurrencies :
        get_balance(db, c, cur) =
          SumAmount({[uid |-> e.uid, amount |-> e.amount] : e \in EntriesOf(db, c, cur)})

====
